---- MODULE Spec2Model ----
(***************************************************************************)
(* Snapshot storage, rate estimation and projection of claude-usage:       *)
(* CodeStorage / CodeAnalytics (code_mode/storage.py), ConsoleStorage /    *)
(* ConsoleAnalytics (console_mode/storage.py) and BaseStorage              *)
(* (shared/storage.py).                                                    *)
(*                                                                         *)
(* Python values are tagged records so that None, numbers and dicts can be *)
(* compared safely.  Numbers are exact fractions n/d (d > 0); the floats   *)
(* of the source are exact on the integer-valued inputs used here.         *)
(***************************************************************************)
EXTENDS Integers, Sequences, FiniteSets, TLC

VARIABLES now, usage_snapshots, console_usage_snapshots, last, ticks

(* db: what _init_database left behind when the store was constructed. *)
(* console: the ConsoleMonitor object and the position of its run loop.    *)
(* scope: the database file, its write lock and the with-scopes of          *)
(* get_connection open on it.                                              *)
(* pm: the files of the pace-maker collaborator and the last query of       *)
(* PaceMakerReader / CodeMonitor.get_display on them.                      *)
(* code: the CodeMonitor object, the credentials file and Keychain it      *)
(* reads, and the position of its run loop; held, reloads and             *)
(* keychain_calls describe its last fetch_usage call (the credentials it   *)
(* found, its _load_credentials calls, its Keychain reads), refreshed       *)
(* whether a reload inside fetch_usage has produced an unexpired token,     *)
(* load what its last load_credentials call returned and when.             *)
(* tx: one store call taken statement by statement, with the rows its    *)
(* connection holds uncommitted and what a concurrent reader saw.          *)
(* pager: one call of ConsoleAPIClient._handle_pagination: its locals, the  *)
(* requests sent and the responses received so far.                        *)
(* cache: the blockage-stats cache of PaceMakerReader, the pace-maker      *)
(* files and events it reads, and its last get_blockage_stats_cached call. *)
VARIABLES db, console, scope, pm, code, tx, pager, cache

(* The variables outside the storage operations, and those outside each    *)
(* of the other components.                                                *)
ext == <<db, console, scope, pm, code, tx, pager, cache>>
NotDb == <<console, scope, pm, code, tx, pager, cache>>
NotConsole == <<db, scope, pm, code, tx, pager, cache>>
NotScope == <<db, console, pm, code, tx, pager, cache>>
NotPm == <<db, console, scope, code, tx, pager, cache>>
NotCode == <<db, console, scope, pm, tx, pager, cache>>
NotTx == <<db, console, scope, pm, code, pager, cache>>
NotPager == <<db, console, scope, pm, code, tx, cache>>
NotCache == <<db, console, scope, pm, code, tx, pager>>

vars == <<now, usage_snapshots, console_usage_snapshots, last, ticks, ext>>

(***************************** bounds *************************************)
MaxTicks == 1
MaxRows == 2
MaxCycles == 2
MaxReads == 1
MaxPages == 3
MaxEvents == 2
MaxClock == 10

(************************** program constants *****************************)
HISTORY_RETENTION == 604800
RATE_CALC_WINDOW == 1800
SECONDS_PER_HOUR == 3600
windows == <<1800, 3600, 10800, 21600, 86400, 604800>>

(* Wall-clock second at which the model starts (any value > 7 days). *)
T0 == 700000

(**************************** Python values *******************************)
RECURSIVE GCD(_, _)
GCD(a, b) == IF b = 0 THEN a ELSE GCD(b, a % b)

Abs(x) == IF x < 0 THEN 0 - x ELSE x

None == [t |-> "None", n |-> 0, d |-> 1]

Frac(n, d) ==
    LET g == GCD(Abs(n), Abs(d))
        s == IF d < 0 THEN 0 - 1 ELSE 1
    IN  [t |-> "num", n |-> (s * n) \div g, d |-> (s * d) \div g]

Num(n) == [t |-> "num", n |-> n, d |-> 1]

Add(a, b) == Frac(a.n * b.d + b.n * a.d, a.d * b.d)
Sub(a, b) == Frac(a.n * b.d - b.n * a.d, a.d * b.d)
Mul(a, b) == Frac(a.n * b.n, a.d * b.d)
IsNone(a) == a.t = "None"
LtZero(a) == a.n < 0
LeZero(a) == a.n <= 0

(* dict.get(key, default): the value under key when the key is present     *)
(* (even when that value is None), the default otherwise.                  *)
Get(dict, key, default) == IF key \in dict.keys THEN dict[key] ELSE default

(* Python truth value of an Optional[dict]: None and {} are falsy. *)
Truthy(dict) == dict.t = "dict" /\ dict.keys # {}

(* resets_at strings.  kind "utc" is an ISO string ending in +00:00, "naive"  *)
(* an ISO string without offset, "bad" a string fromisoformat rejects,     *)
(* "empty" the empty string; at is the instant an ISO string denotes.      *)
Str(kind, at) == [kind |-> kind, at |-> at]
EmptyStr == Str("empty", 0)

(****************************** inputs ************************************)
NoneDict == [t |-> "None", keys |-> {}, used_credits |-> None, total_cost_usd |-> None]

OverageDict(keys, v) == [t |-> "dict", keys |-> keys, used_credits |-> v, total_cost_usd |-> None]
CostDict(keys, v) == [t |-> "dict", keys |-> keys, used_credits |-> None, total_cost_usd |-> v]

CostInputs ==
    { NoneDict, CostDict({}, None), CostDict({"other"}, None),
      CostDict({"total_cost_usd"}, None),
      CostDict({"total_cost_usd"}, Num(10)), CostDict({"total_cost_usd"}, Num(15)) }

FiveHour(keys, u, r) == [keys |-> keys, utilization |-> u, resets_at |-> r]
NoFiveHour == FiveHour({}, Num(0), EmptyStr)
UsageNone == [t |-> "None", keys |-> {}, five_hour |-> NoFiveHour]
UsageDict(keys, fh) == [t |-> "dict", keys |-> keys, five_hour |-> fh]

GoodUsage(t) ==
    UsageDict({"five_hour"}, FiveHour({"utilization", "resets_at"}, Num(75), Str("utc", t + 7200)))

PastUsage(t) ==
    UsageDict({"five_hour"}, FiveHour({"utilization", "resets_at"}, Num(75), Str("naive", t - 60)))

NoResetUsage == UsageDict({"five_hour"}, FiveHour({"utilization"}, Num(75), EmptyStr))
BadResetUsage ==
    UsageDict({"five_hour"}, FiveHour({"utilization", "resets_at"}, Num(75), Str("bad", 0)))
OtherUsage == UsageDict({"seven_day"}, NoFiveHour)

Credits(v) == OverageDict({"used_credits"}, Num(v))

(* The (overage_data, usage_data) pairs handed to store_snapshot at second t. *)
StoreInputs(t) ==
    { <<NoneDict, GoodUsage(t)>>, <<OverageDict({}, None), GoodUsage(t)>>,
      <<OverageDict({"other"}, None), GoodUsage(t)>>,
      <<OverageDict({"used_credits"}, None), GoodUsage(t)>>,
      <<Credits(100), UsageNone>>, <<Credits(100), UsageDict({}, NoFiveHour)>>,
      <<Credits(100), OtherUsage>>, <<Credits(100), NoResetUsage>>,
      <<Credits(100), GoodUsage(t)>>, <<Credits(200), GoodUsage(t)>> }

(* The (overage_data, usage_data) pairs handed to project_usage at second t. *)
ProjectInputs(t) ==
    { <<NoneDict, GoodUsage(t)>>, <<Credits(200), UsageNone>>,
      <<OverageDict({"other"}, None), GoodUsage(t)>>,
      <<Credits(200), NoResetUsage>>,
      <<Credits(200), BadResetUsage>>, <<Credits(200), PastUsage(t)>>,
      <<Credits(200), GoodUsage(t)>> }

(* Ages (seconds before now; negative = in the future) and values of the   *)
(* rows written straight to the database file.                             *)
Ages == {0, 1200, 10800, 604800, 604801, 0 - 60}
ConsoleAges == {0, 604801}
CreditValues == {100}
CostValues == {10}
CurrentValues == {None, Num(50), Num(100), Num(200)}
CurrentCosts == {None, Num(5), Num(10), Num(15)}

(**************************** the database ********************************)
UsageRow(ts, credits, util, resets) ==
    [timestamp |-> ts, credits_used |-> credits, utilization_percent |-> util, resets_at |-> resets]

ConsoleRow(ts, cost, json) ==
    [timestamp |-> ts, mtd_cost |-> cost, workspace_costs_json |-> json]

(* INSERT OR REPLACE on a table whose primary key is timestamp. *)
InsertOrReplace(table, row) ==
    {r \in table : r.timestamp # row.timestamp} \cup {row}

(* DELETE FROM table WHERE timestamp < cutoff *)
DeleteOlder(table, cutoff) == {r \in table : ~(r.timestamp < cutoff)}

(* SELECT ... WHERE timestamp >= cutoff ORDER BY timestamp ASC LIMIT 1;    *)
(* the result is the set holding the row fetched by fetchone(), or {}.     *)
SelectOldestSince(table, cutoff) ==
    LET inw == {r \in table : r.timestamp >= cutoff}
    IN  {r \in inw : \A q \in inw : r.timestamp <= q.timestamp}

(* BaseStorage.get_connection is a generator wrapped by @contextmanager:   *)
(* calling it runs none of its body and returns a context manager, whose  *)
(* only use is a with statement.                                           *)
get_connection(readonly) ==
    [type |-> "_GeneratorContextManager", attrs |-> {"__enter__", "__exit__"},
     readonly |-> readonly]

HasAttr(obj, name) == name \in obj.attrs

(***************************** outcomes ***********************************)
(* What one call did: its return value, whether an exception left it, the  *)
(* table afterwards, the number of get_connection calls and of SQL         *)
(* statements executed.                                                    *)
Out(ret, raised, table, calls, sql) ==
    [ret |-> ret, raised |-> raised, table |-> table, calls |-> calls, sql |-> sql]

(*********************** CodeStorage.store_snapshot ***********************)
(* store_snapshot leaving an emptied table behind when the write fails. *)
store_snapshot_resettable(overage_data, usage_data, t, table) ==
    IF ~Truthy(overage_data) \/ ~Truthy(usage_data)
    THEN Out(FALSE, FALSE, table, 0, 0)
    ELSE Out(FALSE, FALSE, {}, 1, 0)

store_snapshot(overage_data, usage_data, t, table) ==
    IF ~Truthy(overage_data) \/ ~Truthy(usage_data)
    THEN Out(FALSE, FALSE, table, 0, 0)
    ELSE
      LET timestamp == t
          credits_used == Get(overage_data, "used_credits", Num(0))
          five_hour == Get(usage_data, "five_hour", NoFiveHour)
          utilization == Get(five_hour, "utilization", Num(0))
          resets_at == Get(five_hour, "resets_at", EmptyStr)
          conn == get_connection(FALSE)
          (* try: cursor = conn.cursor(); INSERT OR REPLACE; DELETE; commit *)
          body_ok == HasAttr(conn, "cursor")
          cutoff == timestamp - HISTORY_RETENTION
          written ==
              DeleteOlder(
                  InsertOrReplace(table,
                      UsageRow(timestamp, credits_used, utilization, resets_at)),
                  cutoff)
          (* finally: conn.close() *)
          close_ok == HasAttr(conn, "close")
          after == IF body_ok THEN written ELSE table
          sql == IF body_ok THEN 2 ELSE 0
      IN  IF body_ok /\ close_ok
          THEN Out(TRUE, FALSE, after, 1, sql)
          (* except Exception: log, return False *)
          ELSE Out(FALSE, FALSE, after, 1, sql)

(****************** ConsoleStorage.store_console_snapshot *****************)
(* store_console_snapshot without its "if not mtd_data" return: None.get    *)
(* raises, and an empty dict goes on to the database.                       *)
store_console_snapshot_noguard(mtd_data, workspaces, t, table) ==
    IF mtd_data.t = "None"
    THEN Out(FALSE, TRUE, table, 0, 0)
    ELSE
      LET conn == get_connection(FALSE)
          written ==
              DeleteOlder(
                  InsertOrReplace(table,
                      ConsoleRow(t, Get(mtd_data, "total_cost_usd", Num(0)), workspaces)),
                  t - HISTORY_RETENTION)
          body_ok == HasAttr(conn, "cursor")
      IN  IF body_ok /\ HasAttr(conn, "close")
          THEN Out(TRUE, FALSE, written, 1, 2)
          ELSE Out(FALSE, TRUE, IF body_ok THEN written ELSE table, 1,
                   IF body_ok THEN 2 ELSE 0)

store_console_snapshot(mtd_data, workspaces, t, table) ==
    IF ~Truthy(mtd_data)
    THEN Out(FALSE, FALSE, table, 0, 0)
    ELSE
      LET timestamp == t
          mtd_cost == Get(mtd_data, "total_cost_usd", Num(0))
          workspace_json == workspaces
          conn == get_connection(FALSE)
          body_ok == HasAttr(conn, "cursor")
          cutoff == timestamp - HISTORY_RETENTION
          written ==
              DeleteOlder(
                  InsertOrReplace(table, ConsoleRow(timestamp, mtd_cost, workspace_json)),
                  cutoff)
          close_ok == HasAttr(conn, "close")
          after == IF body_ok THEN written ELSE table
          sql == IF body_ok THEN 2 ELSE 0
      IN  IF body_ok /\ close_ok
          THEN Out(TRUE, FALSE, after, 1, sql)
          (* no except clause: the exception leaves the method *)
          ELSE Out(FALSE, TRUE, after, 1, sql)

(**************************** rate estimator ******************************)
(* The (timestamp, value) pairs a SELECT timestamp, <column> reads. *)
Column(table, field) == {[timestamp |-> r.timestamp, value |-> r[field]] : r \in table}

(* for window in windows: ... of calculate_usage_rate and                  *)
(* calculate_console_mtd_rate, from the i-th window on.  exc is TRUE when   *)
(* the subtraction meets a NULL column (TypeError); sql counts the queries. *)
RECURSIVE window_search(_, _, _, _, _)
window_search(rows, current, current_timestamp, i, sql) ==
    IF i > Len(windows)
    THEN [ret |-> None, exc |-> FALSE, sql |-> sql]
    ELSE
      LET cutoff == current_timestamp - windows[i]
          result == SelectOldestSince(rows, cutoff)
      IN  IF result = {}
          THEN window_search(rows, current, current_timestamp, i + 1, sql + 1)
          ELSE
            LET old == CHOOSE r \in result : TRUE
                time_diff == current_timestamp - old.timestamp
            IN  IF time_diff = 0
                THEN window_search(rows, current, current_timestamp, i + 1, sql + 1)
                ELSE IF IsNone(old.value)
                THEN [ret |-> None, exc |-> TRUE, sql |-> sql + 1]
                ELSE IF LeZero(Sub(current, old.value))
                THEN [ret |-> Num(0), exc |-> FALSE, sql |-> sql + 1]
                ELSE [ret |-> Mul(Frac(Sub(current, old.value).n,
                                       Sub(current, old.value).d * time_diff),
                                  Num(SECONDS_PER_HOUR)),
                      exc |-> FALSE, sql |-> sql + 1]

(* The try block shared by the two estimators: get_connection, the window   *)
(* loop under try/finally conn.close().  Gives the value returned and       *)
(* whether an exception leaves the block.                                   *)
rate_body(rows, current, t) ==
    LET conn == get_connection(FALSE)
        body_ok == HasAttr(conn, "cursor")
        found == window_search(rows, current, t, 1, 0)
        close_ok == HasAttr(conn, "close")
    IN  IF body_ok /\ ~found.exc /\ close_ok
        THEN [ret |-> found.ret, exc |-> FALSE, sql |-> found.sql]
        ELSE [ret |-> None, exc |-> TRUE, sql |-> IF body_ok THEN found.sql ELSE 0]

(* calculate_usage_rate without its "if current_credits is None" return. *)
calculate_usage_rate_nonullcheck(current_credits, t, table) ==
    LET b == rate_body(Column(table, "credits_used"), current_credits, t)
    IN  Out(b.ret, FALSE, table, 1, b.sql)

(* calculate_usage_rate without its except clause: the exception leaves it. *)
calculate_usage_rate_nocatch(current_credits, t, table) ==
    IF IsNone(current_credits)
    THEN Out(None, FALSE, table, 0, 0)
    ELSE
      LET b == rate_body(Column(table, "credits_used"), current_credits, t)
      IN  Out(b.ret, b.exc, table, 1, b.sql)

(* CodeStorage.calculate_usage_rate *)
calculate_usage_rate(current_credits, t, table) ==
    IF IsNone(current_credits)
    THEN Out(None, FALSE, table, 0, 0)
    ELSE
      LET b == rate_body(Column(table, "credits_used"), current_credits, t)
      IN  (* except Exception: log, return None *)
          Out(b.ret, FALSE, table, 1, b.sql)

(* ConsoleAnalytics.calculate_console_mtd_rate *)
calculate_console_mtd_rate(current_mtd_cost, t, table) ==
    IF IsNone(current_mtd_cost)
    THEN Out(None, FALSE, table, 0, 0)
    ELSE
      LET b == rate_body(Column(table, "mtd_cost"), current_mtd_cost, t)
      IN  Out(b.ret, FALSE, table, 1, b.sql)

(* CodeAnalytics.calculate_console_mtd_rate answering 0 where it has       *)
(* nothing to compare with.                                                *)
compat_console_mtd_rate_zero(current_mtd_cost, t, table) ==
    IF IsNone(current_mtd_cost)
    THEN Out(None, FALSE, table, 0, 0)
    ELSE Out(Num(0), FALSE, table, 1, 0)

(* CodeAnalytics.calculate_console_mtd_rate, the backward-compatibility     *)
(* method of code_mode/storage.py: one query with the 30-minute cutoff      *)
(* under try/finally conn.close(), the arithmetic after it.                 *)
compat_console_mtd_rate(current_mtd_cost, t, table) ==
    IF IsNone(current_mtd_cost)
    THEN Out(None, FALSE, table, 0, 0)
    ELSE
      LET conn == get_connection(FALSE)
          body_ok == HasAttr(conn, "cursor")
          close_ok == HasAttr(conn, "close")
          cutoff == t - RATE_CALC_WINDOW
          result == SelectOldestSince(Column(table, "mtd_cost"), cutoff)
      IN  IF ~(body_ok /\ close_ok)
          THEN (* AttributeError, except Exception: return None *)
               Out(None, FALSE, table, 1, IF body_ok THEN 1 ELSE 0)
          ELSE IF result = {}
          THEN Out(None, FALSE, table, 1, 1)
          ELSE
            LET old == CHOOSE r \in result : TRUE
                time_diff == t - old.timestamp
            IN  IF time_diff = 0 \/ IsNone(old.value)
                THEN Out(None, FALSE, table, 1, 1)
                ELSE IF LeZero(Sub(current_mtd_cost, old.value))
                THEN Out(Num(0), FALSE, table, 1, 1)
                ELSE Out(Mul(Frac(Sub(current_mtd_cost, old.value).n,
                                  Sub(current_mtd_cost, old.value).d * time_diff),
                             Num(SECONDS_PER_HOUR)),
                         FALSE, table, 1, 1)

(******************************* projector ********************************)
(* project_console_eom_cost adding the hourly rate once, not per hour. *)
project_console_eom_cost_nohours(current_mtd_cost, rate_per_hour, hours_until_eom) ==
    IF IsNone(current_mtd_cost) \/ IsNone(rate_per_hour) \/ IsNone(hours_until_eom)
    THEN None
    ELSE IF LtZero(hours_until_eom)
    THEN current_mtd_cost
    ELSE Add(current_mtd_cost, rate_per_hour)

(* project_console_eom_cost without the "hours_until_eom < 0" clamp. *)
project_console_eom_cost_noclamp(current_mtd_cost, rate_per_hour, hours_until_eom) ==
    IF IsNone(current_mtd_cost) \/ IsNone(rate_per_hour) \/ IsNone(hours_until_eom)
    THEN None
    ELSE Add(current_mtd_cost, Mul(rate_per_hour, hours_until_eom))

(* ConsoleAnalytics.project_console_eom_cost *)
project_console_eom_cost(current_mtd_cost, rate_per_hour, hours_until_eom) ==
    IF IsNone(current_mtd_cost) \/ IsNone(rate_per_hour) \/ IsNone(hours_until_eom)
    THEN None
    ELSE IF LtZero(hours_until_eom)
    THEN current_mtd_cost
    ELSE Add(current_mtd_cost, Mul(rate_per_hour, hours_until_eom))

NoProjection ==
    [t |-> "None", current_credits |-> None, projected_credits |-> None,
     rate_per_hour |-> None, hours_until_reset |-> None]

(* datetime.fromisoformat(s.replace("+00:00", "")): a naive datetime for an  *)
(* ISO string with or without the +00:00 suffix, ValueError otherwise.      *)
fromisoformat(s) ==
    IF s.kind \in {"utc", "naive"}
    THEN [ok |-> TRUE, at |-> s.at]
    ELSE [ok |-> FALSE, at |-> 0]

(* CodeAnalytics.project_usage *)
project_usage(overage_data, usage_data, t, table) ==
    IF ~Truthy(overage_data) \/ ~Truthy(usage_data)
    THEN Out(NoProjection, FALSE, table, 0, 0)
    ELSE
      LET current_credits == Get(overage_data, "used_credits", Num(0))
          r == calculate_usage_rate(current_credits, t, table)
          rate == r.ret
          resets_at_str == Get(Get(usage_data, "five_hour", NoFiveHour), "resets_at", EmptyStr)
          reset_time == fromisoformat(resets_at_str)
          time_until_reset == reset_time.at - t
          hours_until_reset == Frac(time_until_reset, SECONDS_PER_HOUR)
      IN  IF IsNone(rate)
          THEN Out(NoProjection, FALSE, table, r.calls, r.sql)
          ELSE IF resets_at_str.kind = "empty"
          THEN Out(NoProjection, FALSE, table, r.calls, r.sql)
          (* except Exception: return None *)
          ELSE IF ~reset_time.ok
          THEN Out(NoProjection, FALSE, table, r.calls, r.sql)
          ELSE IF time_until_reset <= 0
          THEN Out(NoProjection, FALSE, table, r.calls, r.sql)
          ELSE Out([t |-> "dict", current_credits |-> current_credits,
                    projected_credits |-> Add(current_credits, Mul(rate, hours_until_reset)),
                    rate_per_hour |-> rate,
                    hours_until_reset |-> hours_until_reset],
                   FALSE, table, r.calls, r.sql)

(***************************** state machine ******************************)
(* last records the most recent call: its name, the second it ran in, its  *)
(* inputs, and its outcome (ok: the bool a store returns; val: the number   *)
(* or None an estimator or project_console_eom_cost returns; proj: what     *)
(* project_usage returns).                                                 *)
Call(op, t, overage, usage, cost, cur, rate, hours, ok, val, proj, raised, calls, sql) ==
    [op |-> op, t |-> t, overage |-> overage, usage |-> usage, cost |-> cost,
     cur |-> cur, rate |-> rate, hours |-> hours,
     ok |-> ok, val |-> val, proj |-> proj, raised |-> raised,
     calls |-> calls, sql |-> sql]

NoCall ==
    Call("none", 0, NoneDict, UsageNone, NoneDict, None, None, None,
         FALSE, None, NoProjection, FALSE, 0, 0)

(* The input of a store carries its required measure. *)
WellFormedCode(overage_data, usage_data) ==
    /\ Truthy(overage_data) /\ Truthy(usage_data)
    /\ "used_credits" \in overage_data.keys /\ ~IsNone(overage_data.used_credits)

WellFormedConsole(mtd_data) ==
    /\ Truthy(mtd_data)
    /\ "total_cost_usd" \in mtd_data.keys /\ ~IsNone(mtd_data.total_cost_usd)

(*********************** the monitors as constructed **********************)
(* Python truth value of an Optional[float]: None and 0 are falsy. *)
TruthyNum(a) == ~IsNone(a) /\ a.n # 0

(* The cost report held in self.mtd_cost; fetch_console_data adds the       *)
(* claude_code_user_cost_usd key of the current user.                      *)
MonitorCost(keys, total, user) ==
    [t |-> "dict", keys |-> keys, used_credits |-> None, total_cost_usd |-> total,
     claude_code_user_cost_usd |-> user]

MonitorCostNone ==
    [t |-> "None", keys |-> {}, used_credits |-> None, total_cost_usd |-> None,
     claude_code_user_cost_usd |-> None]

NoEom ==
    [t |-> "None", current_cost |-> None, projected_cost |-> None,
     rate_per_hour |-> None, hours_until_eom |-> None]

(* What the last fetch_console_data did: the answers the API gave, the      *)
(* requests it issued in order, the value it handed to the rate estimator   *)
(* and the one it handed to the store as mtd_cost (None when not invoked).  *)
FetchCall(done, org, requests, estimate_of, store_of) ==
    [done |-> done, org |-> org, requests |-> requests,
     estimate_of |-> estimate_of, store_of |-> store_of]

NoFetch == FetchCall(FALSE, "ok", <<>>, None, None)

(* ConsoleMonitor.__init__: the client exists when an admin key was found. *)
NewConsole(has_key) ==
    [pc |-> "display", console_client |-> has_key,
     mtd_cost |-> MonitorCostNone, eom_projection |-> NoEom,
     error_message |-> IF has_key THEN "None" ELSE "no_key",
     last_update |-> 0, ret |-> "None", steps |-> <<>>, cycles |-> 0,
     success |-> FALSE, fetch_t |-> 0, call |-> NoFetch]

(* get_connection: DB_TIMEOUT is the busy timeout handed to                *)
(* sqlite3.connect; Writers are the processes that use the scoped pattern  *)
(* "with storage.get_connection() as conn:" on the one database file.      *)
DB_TIMEOUT == 5
Writers == {1, 2}

NoConnection ==
    [pc |-> "idle", readonly |-> FALSE, conn |-> "none", pending |-> FALSE,
     wrote |-> FALSE, waiting |-> FALSE, waited |-> 0, exc |-> "none",
     calls |-> <<>>]

(* file: the writers whose row is committed; lock: the holder of the write *)
(* lock (0: free).                                                         *)
NoScopes == [file |-> {}, lock |-> 0, w |-> [id \in Writers |-> NoConnection]]

(* No store call in progress. *)
NoStore ==
    [pc |-> "idle", kind |-> "usage", started |-> FALSE, attrs |-> {},
     before |-> {}, pending |-> {}, row |-> {}, t |-> 0, exc |-> "None",
     ret |-> "None", raised |-> "None", seen |-> {}, reads |-> 0]

(* _handle_pagination not called. *)
NoPagination ==
    [pc |-> "idle", all_data |-> <<>>, has_more |-> TRUE, next_page |-> "None",
     page_param_key |-> "None", requests |-> <<>>, pages |-> <<>>,
     data |-> <<>>, returned_data |-> FALSE, error |-> "None"]

(* A blockage-stats result: None, or the dict of counts (its total). *)
Stats(t, total) == [t |-> t, total |-> total]
NoStats == Stats("None", 0)

CACHE_TTL_SECONDS == 5

(* PaceMakerReader.__init__ on the files f: the cache fields, with the call *)
(* record of get_blockage_stats_cached (none yet).                          *)
NewReader(f) ==
    [files |-> f, events |-> 0,
     _blockage_stats_cache |-> NoStats, _blockage_stats_cache_time |-> 0,
     op |-> "none", ret |-> NoStats, queried |-> FALSE, connected |-> FALSE,
     t |-> 0, called |-> FALSE, fetched |-> FALSE, prev |-> NoStats, prev_time |-> 0]

(****************************** credentials *******************************)
CODE_POLL_INTERVAL == 30
(* is_token_expired: "expired if less than 5 minutes remaining" (seconds). *)
TOKEN_BUFFER == 300

(* The claudeAiOauth entry of the credentials file or of the Keychain:     *)
(* kind "absent" (no file / Keychain extraction fails), "invalid" (no JSON  *)
(* or no claudeAiOauth key), "empty" (claudeAiOauth is {} or null) or       *)
(* "token" with the second it expires at.  Credentials held by the monitor  *)
(* are None (kind "absent"), "empty" or "token".                           *)
Token(kind, expiresAt) == [kind |-> kind, expiresAt |-> expiresAt]
NoToken == Token("absent", 0)

(* OAuthManager.is_token_expired at second t *)
is_token_expired(credentials, t) ==
    IF credentials.kind # "token" THEN TRUE
    ELSE t >= credentials.expiresAt - TOKEN_BUFFER

(* OAuthManager.load_credentials at second t: the credentials and error    *)
(* returned and the credentials file afterwards (save_credentials_file).   *)
load_credentials(platform, file, keychain, t) ==
    IF file.kind = "absent"
    THEN IF platform = "Darwin"
         THEN IF keychain.kind \in {"absent", "invalid"}
              THEN [credentials |-> NoToken, error |-> "keychain", file |-> file,
                    consulted |-> TRUE]
              ELSE [credentials |-> keychain, error |-> "None", file |-> keychain,
                    consulted |-> TRUE]
         ELSE [credentials |-> NoToken, error |-> "not_found", file |-> file,
               consulted |-> FALSE]
    ELSE IF file.kind = "invalid"
    THEN [credentials |-> NoToken, error |-> "failed", file |-> file,
          consulted |-> FALSE]
    ELSE IF is_token_expired(file, t)
    THEN IF platform = "Darwin"
         THEN IF keychain.kind \in {"absent", "invalid"}
              THEN [credentials |-> file, error |-> "expired", file |-> file,
                    consulted |-> TRUE]
              ELSE [credentials |-> keychain, error |-> "None", file |-> keychain,
                    consulted |-> TRUE]
         ELSE [credentials |-> file, error |-> "expired", file |-> file,
               consulted |-> FALSE]
    ELSE [credentials |-> file, error |-> "None", file |-> file, consulted |-> FALSE]

(* CodeMonitor.__init__ on a platform with a credentials file and Keychain. *)
NewCode(platform, file, keychain, t) ==
    LET o == load_credentials(platform, file, keychain, t)
    IN  [pc |-> "display", platform |-> platform, file |-> o.file,
         keychain |-> keychain, credentials |-> o.credentials,
         error_message |-> o.error, last_usage |-> FALSE,
         op |-> "none", ret |-> "None", requested |-> FALSE, t |-> t, cycles |-> 0,
         held |-> o.credentials, reloads |-> 0, keychain_calls |-> 0,
         refreshed |-> FALSE,
         load |-> [credentials |-> o.credentials, error |-> o.error,
                   consulted |-> o.consulted, t |-> t]]

(* The files under ~/.claude-pace-maker: the directory, config.json         *)
(* ("absent", "invalid" JSON or "valid"), usage.db ("absent", "corrupt" or  *)
(* "ok" with the tables it holds and whether usage_snapshots has a row),   *)
(* and whether the pacemaker Python package can be imported.               *)
PmFiles(dir, config, dbfile, tables, rows, src) ==
    [dir |-> dir, config |-> config, db |-> dbfile, tables |-> tables,
     rows |-> rows, src |-> src]

(* What a query returned: t is "None", "False", "True", "dict" or           *)
(* "display"; has_data and error are the keys of a status dict.            *)
PmVal(t, has_data, error) == [t |-> t, has_data |-> has_data, error |-> error]

NoPaceMaker ==
    [files |-> PmFiles(FALSE, "absent", "absent", {}, FALSE, FALSE),
     op |-> "none", ret |-> PmVal("None", FALSE, FALSE), raised |-> FALSE]

Init ==
    /\ now = T0
    /\ cache = NewReader(PmFiles(FALSE, "absent", "absent", {}, FALSE, FALSE))
    /\ pager = NoPagination
    /\ tx = NoStore
    /\ usage_snapshots = {}
    /\ console_usage_snapshots = {}
    /\ last = NoCall
    /\ ticks = 0
    /\ db = "ready"
    /\ console = NewConsole(TRUE)
    /\ scope = NoScopes
    /\ pm = NoPaceMaker
    /\ code = NewCode("Linux", NoToken, NoToken, T0)

(* Wall-clock time passes. *)
Tick ==
    /\ ticks < MaxTicks
    /\ \E d \in {1800} : now' = now + d
    /\ ticks' = ticks + 1
    /\ last' = NoCall
    /\ UNCHANGED <<ext, usage_snapshots, console_usage_snapshots>>

(* A row written to the database file with plain SQL by another writer     *)
(* (an earlier release of the monitor, a test's sqlite3 session).          *)
SqliteInsertUsage ==
    /\ Cardinality(usage_snapshots) + Cardinality(console_usage_snapshots) < MaxRows
    /\ \E age \in Ages, v \in CreditValues :
         /\ \A r \in usage_snapshots : r.timestamp # now - age
         /\ usage_snapshots' =
              usage_snapshots \cup {UsageRow(now - age, Num(v), Num(50), EmptyStr)}
    /\ last' = NoCall
    /\ UNCHANGED <<ext, now, console_usage_snapshots, ticks>>

SqliteInsertConsole ==
    /\ Cardinality(usage_snapshots) + Cardinality(console_usage_snapshots) < MaxRows
    /\ \E age \in ConsoleAges, v \in CostValues :
         /\ \A r \in console_usage_snapshots : r.timestamp # now - age
         /\ console_usage_snapshots' =
              console_usage_snapshots \cup {ConsoleRow(now - age, Num(v), "[]")}
    /\ last' = NoCall
    /\ UNCHANGED <<ext, now, usage_snapshots, ticks>>

StoreSnapshot ==
    \E in \in StoreInputs(now) :
      LET overage_data == in[1]
          usage_data == in[2]
          o == store_snapshot(overage_data, usage_data, now, usage_snapshots)
      IN  /\ usage_snapshots' = o.table
          /\ last' = Call("store_snapshot", now, overage_data, usage_data, NoneDict,
                          None, None, None, o.ret, None, NoProjection,
                          o.raised, o.calls, o.sql)
          /\ UNCHANGED <<ext, now, console_usage_snapshots, ticks>>

StoreConsoleSnapshot ==
    \E mtd_data \in CostInputs :
      LET o == store_console_snapshot(mtd_data, "[]", now, console_usage_snapshots)
      IN  /\ console_usage_snapshots' = o.table
          /\ last' = Call("store_console_snapshot", now, NoneDict, UsageNone, mtd_data,
                          None, None, None, o.ret, None, NoProjection,
                          o.raised, o.calls, o.sql)
          /\ UNCHANGED <<ext, now, usage_snapshots, ticks>>

CalculateUsageRate ==
    \E current_credits \in CurrentValues :
      LET o == calculate_usage_rate(current_credits, now, usage_snapshots)
      IN  /\ last' = Call("calculate_usage_rate", now, NoneDict, UsageNone, NoneDict,
                          current_credits, None, None, FALSE, o.ret, NoProjection,
                          o.raised, o.calls, o.sql)
          /\ UNCHANGED <<ext, now, usage_snapshots, console_usage_snapshots, ticks>>

CalculateConsoleMtdRate ==
    \E current_mtd_cost \in CurrentCosts :
      LET o == calculate_console_mtd_rate(current_mtd_cost, now, console_usage_snapshots)
      IN  /\ last' = Call("calculate_console_mtd_rate", now, NoneDict, UsageNone, NoneDict,
                          current_mtd_cost, None, None, FALSE, o.ret, NoProjection,
                          o.raised, o.calls, o.sql)
          /\ UNCHANGED <<ext, now, usage_snapshots, console_usage_snapshots, ticks>>

ProjectUsage ==
    \E in \in ProjectInputs(now) :
      LET overage_data == in[1]
          usage_data == in[2]
          o == project_usage(overage_data, usage_data, now, usage_snapshots)
      IN  /\ last' = Call("project_usage", now, overage_data, usage_data, NoneDict,
                          None, None, None, FALSE, None, o.ret,
                          o.raised, o.calls, o.sql)
          /\ UNCHANGED <<ext, now, usage_snapshots, console_usage_snapshots, ticks>>

ProjectConsoleEomCost ==
    \E current_mtd_cost \in {Num(10)},
       rate_per_hour \in {None, Num(0), Num(2)},
       hours_until_eom \in {None, Num(0 - 10), Num(0), Num(360)} :
      /\ last' = Call("project_console_eom_cost", now, NoneDict, UsageNone, NoneDict,
                      current_mtd_cost, rate_per_hour, hours_until_eom, FALSE,
                      project_console_eom_cost(current_mtd_cost, rate_per_hour,
                                               hours_until_eom),
                      NoProjection, FALSE, 0, 0)
      /\ UNCHANGED <<ext, now, usage_snapshots, console_usage_snapshots, ticks>>

Next ==
    \/ Tick
    \/ SqliteInsertUsage
    \/ SqliteInsertConsole
    \/ StoreSnapshot
    \/ StoreConsoleSnapshot
    \/ CalculateUsageRate
    \/ CalculateConsoleMtdRate
    \/ ProjectUsage
    \/ ProjectConsoleEomCost

Spec == Init /\ [][Next]_vars

TypeOK ==
    /\ now \in Nat
    /\ ticks \in 0..MaxTicks + 1

(******************** BaseStorage._init_database **************************)
(* The step of _init_database at which the operating system or SQLite      *)
(* refuses: mkdir of the storage directory, sqlite3.connect, the first     *)
(* statement on a corrupt file, or the CREATE TABLE statements.            *)
InitFaults == {"none", "mkdir", "connect", "pragma", "create_tables"}

(* try: mkdir; connect; PRAGMA; _create_tables; commit; close               *)
(* except Exception: pass.  Gives the state of the database file and        *)
(* whether an exception leaves the constructor.                            *)
_init_database(fault) ==
    LET mkdir_ok == fault # "mkdir"
        connect_ok == mkdir_ok /\ fault # "connect"
        pragma_ok == connect_ok /\ fault # "pragma"
        tables_ok == pragma_ok /\ fault # "create_tables"
    IN  [db |-> IF tables_ok THEN "ready"
                ELSE IF ~mkdir_ok THEN "no_directory"
                ELSE IF ~connect_ok THEN "unopenable"
                ELSE IF ~pragma_ok THEN "corrupt"
                ELSE "no_tables",
         raised |-> FALSE]

FailedDb == {"no_directory", "unopenable", "corrupt", "no_tables"}

(* No store has been constructed yet. *)
FaultInit ==
    /\ now = T0
    /\ cache = NewReader(PmFiles(FALSE, "absent", "absent", {}, FALSE, FALSE))
    /\ pager = NoPagination
    /\ tx = NoStore
    /\ usage_snapshots = {}
    /\ console_usage_snapshots = {}
    /\ last = NoCall
    /\ ticks = 0
    /\ db = "unbuilt"
    /\ console = NewConsole(TRUE)
    /\ scope = NoScopes
    /\ pm = NoPaceMaker
    /\ code = NewCode("Linux", NoToken, NoToken, T0)

(* CodeStorage(db_path) / ConsoleStorage(db_path) *)
InitDatabase ==
    /\ db = "unbuilt"
    /\ \E fault \in InitFaults :
         LET o == _init_database(fault)
         IN  /\ db' = o.db
             /\ last' = Call("__init__", now, NoneDict, UsageNone, NoneDict,
                             None, None, None, FALSE, None, NoProjection,
                             o.raised, 0, 0)
    /\ UNCHANGED <<now, usage_snapshots, console_usage_snapshots, ticks, NotDb>>

(* The operations of a constructed store, whatever its construction left. *)
FaultNext ==
    \/ InitDatabase
    \/ /\ db # "unbuilt"
       /\ \/ StoreSnapshot
          \/ StoreConsoleSnapshot
          \/ CalculateUsageRate
          \/ CalculateConsoleMtdRate

FaultSpec == FaultInit /\ [][FaultNext]_vars

(**************************** ConsoleMonitor ******************************)
CONSOLE_POLL_INTERVAL == 120

(* What the Admin API answers during one fetch_console_data: org is the    *)
(* organisation request ("ok" / "error"), cost the cost report (None with   *)
(* an error), user the per-user Claude Code usage: "error", "none" (no      *)
(* data), "no_email" (current user not identified) or "found" with the      *)
(* user's cost in user_cost.                                               *)
Api(org, cost, user, user_cost) ==
    [org |-> org, cost |-> cost, user |-> user, user_cost |-> user_cost]

ApiAnswers ==
    { Api("error", MonitorCostNone, "none", None),
      Api("ok", MonitorCostNone, "found", Num(5)),
      Api("ok", MonitorCost({}, None, None), "found", Num(5)),
      Api("ok", MonitorCost({"total_cost_usd"}, Num(10), None), "error", None),
      Api("ok", MonitorCost({"total_cost_usd"}, Num(10), None), "none", None),
      Api("ok", MonitorCost({"total_cost_usd"}, Num(10), None), "no_email", None),
      Api("ok", MonitorCost({"total_cost_usd"}, Num(10), None), "found", None),
      Api("ok", MonitorCost({"total_cost_usd"}, Num(10), None), "found", Num(0)),
      Api("ok", MonitorCost({"total_cost_usd"}, Num(10), None), "found", Num(5)) }

(* CycleSteps writing the snapshot before the estimate. *)
CycleSteps_storefirst(estimated, projected, stored) ==
    <<"fetch">>
    \o (IF stored THEN <<"store">> ELSE <<>>)
    \o (IF estimated THEN <<"estimate">> ELSE <<>>)
    \o (IF projected THEN <<"project">> ELSE <<>>)

(* The steps of one fetch_console_data in the order the method takes them: *)
(* the estimator (line 151), the projector (161), the store (179).         *)
CycleSteps(estimated, projected, stored) ==
    <<"fetch">>
    \o (IF estimated THEN <<"estimate">> ELSE <<>>)
    \o (IF projected THEN <<"project">> ELSE <<>>)
    \o (IF stored THEN <<"store">> ELSE <<>>)

(* Lines 145-175: the end-of-month projection from the cost report, the     *)
(* estimator's answer and the hours left in the month.  prev is the         *)
(* eom_projection held before; it is kept when the cost report is falsy.    *)
eom_block(mtd_cost, rate, hours_until_eom, prev) ==
    IF ~Truthy(mtd_cost)
    THEN prev
    ELSE
      LET current_cost == Get(mtd_cost, "claude_code_user_cost_usd", Num(0))
      IN  IF IsNone(current_cost)
          THEN NoEom
          ELSE IF TruthyNum(rate)
          THEN [t |-> "dict", current_cost |-> current_cost,
                projected_cost |->
                    project_console_eom_cost(current_cost, rate, hours_until_eom),
                rate_per_hour |-> rate, hours_until_eom |-> hours_until_eom]
          ELSE NoEom

(* The requests fetch_console_data issues after the organisation request:  *)
(* workspaces, usage report, cost report, per-user usage, the look-up of    *)
(* the current user's e-mail, and the Claude Code analytics.                *)
RequestsAfterOrganization(lookup, analytics) ==
    <<"workspaces", "usage_report", "cost_report", "claude_code_user_usage">>
    \o (IF lookup THEN <<"current_user_email">> ELSE <<>>)
    \o (IF analytics THEN <<"claude_code_analytics">> ELSE <<>>)

(* fetch_console_data from "Fetch workspaces" on (lines 74-182), at second  *)
(* t.  self holds the fields of the monitor; the result holds them          *)
(* afterwards, the value returned, whether an exception leaves the method,  *)
(* the table, the steps taken and the record of the call; success tells     *)
(* that every request was answered without an error and the cost report is  *)
(* non-empty.                                                               *)
fetch_after_organization(self, api, hours_until_eom, t, table) ==
    LET cost_error == api.cost.t = "None"
        user_error == api.user = "error"
        identified == ~user_error /\ api.user # "none" /\ Truthy(api.cost)
        error1 == IF user_error THEN "user"
                  ELSE IF cost_error THEN "cost"
                  ELSE self.error_message
    IN  IF identified /\ api.user = "no_email"
        THEN [self |-> [self EXCEPT !.mtd_cost = api.cost, !.error_message = "email"],
              ret |-> "True", raised |-> FALSE, table |-> table,
              steps |-> <<"fetch">>, success |-> FALSE,
              call |-> FetchCall(TRUE, api.org,
                                 <<"organization">> \o RequestsAfterOrganization(TRUE, FALSE),
                                 None, None)]
        ELSE
          LET mtd_cost ==
                  IF identified
                  THEN [api.cost EXCEPT
                          !.keys = @ \cup {"claude_code_user_cost_usd"},
                          !.claude_code_user_cost_usd = api.user_cost]
                  ELSE api.cost
              current_cost == Get(mtd_cost, "claude_code_user_cost_usd", Num(0))
              estimated == Truthy(mtd_cost) /\ ~IsNone(current_cost)
              r == calculate_console_mtd_rate(current_cost, t, table)
              rate == IF estimated THEN r.ret ELSE None
              projected == estimated /\ TruthyNum(rate)
              eom == eom_block(mtd_cost, rate, hours_until_eom, self.eom_projection)
              stored == Truthy(mtd_cost)
              o == store_console_snapshot(mtd_cost, "[]", t, table)
              raised == stored /\ o.raised
              self1 == [self EXCEPT !.mtd_cost = mtd_cost, !.error_message = error1,
                                    !.eom_projection = eom]
          IN  [self |-> IF raised THEN self1 ELSE [self1 EXCEPT !.last_update = t],
               ret |-> IF raised THEN "None" ELSE "True",
               raised |-> raised,
               table |-> IF stored THEN o.table ELSE table,
               steps |-> CycleSteps(estimated, projected, stored),
               success |-> Truthy(mtd_cost) /\ ~user_error,
               call |-> FetchCall(TRUE, api.org,
                                  <<"organization">>
                                    \o RequestsAfterOrganization(identified, TRUE),
                                  IF estimated THEN current_cost ELSE None,
                                  IF stored THEN Get(mtd_cost, "total_cost_usd", Num(0))
                                  ELSE None)]

(* fetch_console_data going on after an error of fetch_organization. *)
fetch_console_data_ignoreorgerror(self, api, hours_until_eom, t, table) ==
    IF ~self.console_client
    THEN [self |-> [self EXCEPT !.error_message = "client"],
          ret |-> "False", raised |-> FALSE, table |-> table, steps |-> <<>>,
          success |-> FALSE, call |-> FetchCall(TRUE, api.org, <<>>, None, None)]
    ELSE fetch_after_organization(
             IF api.org = "error" THEN [self EXCEPT !.error_message = "org"] ELSE self,
             api, hours_until_eom, t, table)

(* ConsoleMonitor.fetch_console_data at second t. *)
fetch_console_data(self, api, hours_until_eom, t, table) ==
    IF ~self.console_client
    THEN [self |-> [self EXCEPT !.error_message = "client"],
          ret |-> "False", raised |-> FALSE, table |-> table, steps |-> <<>>,
          success |-> FALSE, call |-> FetchCall(TRUE, api.org, <<>>, None, None)]
    ELSE IF api.org = "error"
    THEN [self |-> [self EXCEPT !.error_message = "org"],
          ret |-> "False", raised |-> FALSE, table |-> table, steps |-> <<"fetch">>,
          success |-> FALSE,
          call |-> FetchCall(TRUE, api.org, <<"organization">>, None, None)]
    ELSE fetch_after_organization(self, api, hours_until_eom, t, table)

ConsoleInit ==
    /\ now = T0
    /\ cache = NewReader(PmFiles(FALSE, "absent", "absent", {}, FALSE, FALSE))
    /\ pager = NoPagination
    /\ tx = NoStore
    /\ usage_snapshots = {}
    /\ console_usage_snapshots = {}
    /\ last = NoCall
    /\ ticks = 0
    /\ db = "ready"
    /\ \E has_key \in BOOLEAN : console = NewConsole(has_key)
    /\ scope = NoScopes
    /\ pm = NoPaceMaker
    /\ code = NewCode("Linux", NoToken, NoToken, T0)

(* run: display = self.get_display(); live.update(...), before the fetch    *)
(* and again after it.                                                      *)
ConsoleGetDisplay ==
    /\ console.pc \in {"display", "display_again"}
    /\ console' = [console EXCEPT
                     !.pc = IF @ = "display" THEN "fetch" ELSE "sleep",
                     !.steps = IF console.pc = "display" THEN <<"render">>
                               ELSE Append(@, "render"),
                     !.call = IF console.pc = "display" THEN NoFetch ELSE @,
                     !.success = IF console.pc = "display" THEN FALSE ELSE @]
    /\ UNCHANGED <<now, usage_snapshots, console_usage_snapshots, last, ticks, NotConsole>>

(* run: self.fetch_console_data(); an exception other than                  *)
(* KeyboardInterrupt leaves run.                                           *)
ConsoleFetchData ==
    /\ console.pc = "fetch"
    /\ \E api \in ApiAnswers, hours_until_eom \in {Num(360)} :
         LET o == fetch_console_data(console, api, hours_until_eom, now,
                                     console_usage_snapshots)
         IN  /\ console' = [o.self EXCEPT
                              !.pc = IF o.raised THEN "crashed" ELSE "display_again",
                              !.ret = o.ret,
                              !.steps = @ \o o.steps,
                              !.success = o.success,
                              !.fetch_t = now,
                              !.call = o.call]
             /\ console_usage_snapshots' = o.table
    /\ UNCHANGED <<now, usage_snapshots, last, ticks, NotConsole>>

(* run: time.sleep(self.POLL_INTERVAL), then the next turn of while True. *)
ConsoleSleep ==
    /\ console.pc = "sleep"
    /\ console.cycles < MaxCycles
    /\ now' = now + CONSOLE_POLL_INTERVAL
    /\ console' = [console EXCEPT !.pc = "display", !.cycles = @ + 1]
    /\ UNCHANGED <<usage_snapshots, console_usage_snapshots, last, ticks, NotConsole>>

(* run: except KeyboardInterrupt: return 0 *)
ConsoleInterrupt ==
    /\ console.pc \in {"display", "fetch", "display_again", "sleep"}
    /\ console' = [console EXCEPT !.pc = "stopped"]
    /\ UNCHANGED <<now, usage_snapshots, console_usage_snapshots, last, ticks, NotConsole>>

ConsoleNext ==
    \/ ConsoleGetDisplay
    \/ ConsoleFetchData
    \/ ConsoleSleep
    \/ ConsoleInterrupt
    \/ SqliteInsertConsole

ConsoleSpec == ConsoleInit /\ [][ConsoleNext]_vars

(************** the projection block with any estimator answer ************)
EomCosts ==
    { MonitorCostNone, MonitorCost({}, None, None),
      MonitorCost({"total_cost_usd"}, Num(10), None),
      MonitorCost({"total_cost_usd", "claude_code_user_cost_usd"}, Num(10), None),
      MonitorCost({"total_cost_usd", "claude_code_user_cost_usd"}, Num(10), Num(5)) }

(* Lines 145-175 of fetch_console_data for an answer of                    *)
(* analytics.calculate_console_mtd_rate.                                   *)
EomProjection ==
    \E mtd_cost \in EomCosts, rate \in {None, Num(0), Num(2)},
       hours_until_eom \in {Num(0), Num(360)}, prev \in {NoEom} :
      LET eom == eom_block(mtd_cost, rate, hours_until_eom, prev)
      IN  /\ last' = Call("eom_block", now, NoneDict, UsageNone, mtd_cost,
                          Get(mtd_cost, "claude_code_user_cost_usd", Num(0)),
                          rate, hours_until_eom, FALSE, eom.projected_cost, eom,
                          FALSE, 0, 0)
          /\ UNCHANGED <<ext, now, usage_snapshots, console_usage_snapshots, ticks>>

EomNext ==
    \/ EomProjection
    \/ CalculateConsoleMtdRate
    \/ ProjectConsoleEomCost
    \/ SqliteInsertConsole

EomSpec == Init /\ [][EomNext]_vars

(******************* BaseStorage.get_connection, scoped ********************)
(* The generator up to its yield: connect, PRAGMA journal_mode=WAL,         *)
(* PRAGMA read_uncommitted for a readonly scope.  fault names the statement *)
(* that raises; then the finally clause closes a connection that exists.   *)
get_connection_enter(fault, readonly) ==
    IF fault = "connect"
    THEN [conn |-> "none", exc |-> "connect", calls |-> <<"connect">>]
    ELSE IF fault = "pragma"
    THEN [conn |-> "closed", exc |-> "pragma",
          calls |-> <<"connect", "pragma", "close">>]
    ELSE [conn |-> "open", exc |-> "none",
          calls |-> <<"connect", "pragma">>
                    \o (IF readonly THEN <<"pragma">> ELSE <<>>)]

(* get_connection_exit committing in the finally clause. *)
get_connection_exit_commitalways(c, exc, id, file, lock) ==
    [c |-> [c EXCEPT !.pc = "done", !.conn = "closed", !.pending = FALSE,
                     !.waiting = FALSE, !.exc = exc,
                     !.calls = @ \o <<"commit", "close">>],
     file |-> IF c.pending THEN file \cup {id} ELSE file,
     lock |-> IF lock = id THEN 0 ELSE lock]

(* get_connection_exit without the commit. *)
get_connection_exit_nocommit(c, exc, id, file, lock) ==
    [c |-> [c EXCEPT !.pc = "done", !.conn = "closed", !.pending = FALSE,
                     !.waiting = FALSE, !.exc = exc,
                     !.calls = @ \o <<"close">>],
     file |-> file,
     lock |-> IF lock = id THEN 0 ELSE lock]

(* The generator after its yield.  exc is "none" when the with-body ended   *)
(* normally: conn.commit() unless readonly, then conn.close() in finally.   *)
(* When the body raised, the exception is thrown at the yield: no commit,   *)
(* conn.close() in finally, which discards the open transaction.  Either    *)
(* way the write lock of this connection is released.                      *)
get_connection_exit(c, exc, id, file, lock) ==
    LET commit == exc = "none" /\ ~c.readonly
    IN  [c |-> [c EXCEPT !.pc = "done", !.conn = "closed", !.pending = FALSE,
                         !.waiting = FALSE, !.exc = exc,
                         !.calls = @ \o (IF commit THEN <<"commit">> ELSE <<>>)
                                     \o <<"close">>],
         file |-> IF commit /\ c.pending THEN file \cup {id} ELSE file,
         lock |-> IF lock = id THEN 0 ELSE lock]

ScopeUnchanged ==
    UNCHANGED <<now, usage_snapshots, console_usage_snapshots, last, ticks, NotScope>>

(* with storage.get_connection(readonly) as conn: *)
ScopeEnter(id) ==
    /\ scope.w[id].pc = "idle"
    /\ \E fault \in {"none", "connect", "pragma"}, readonly \in BOOLEAN :
         LET o == get_connection_enter(fault, readonly)
         IN  scope' = [scope EXCEPT
                         !.w[id] = [@ EXCEPT
                            !.pc = IF o.exc = "none" THEN "body" ELSE "done",
                            !.readonly = readonly, !.conn = o.conn,
                            !.exc = o.exc, !.calls = o.calls]]
    /\ ScopeUnchanged

(* The body executes its INSERT: the statement takes the write lock of the *)
(* file, or starts to wait for it when another connection holds it.        *)
ScopeInsert(id) ==
    /\ scope.w[id].pc = "body"
    /\ ~scope.w[id].wrote
    /\ scope' = [scope EXCEPT
                   !.lock = IF @ = 0 THEN id ELSE @,
                   !.w[id] = [@ EXCEPT !.wrote = TRUE,
                                       !.pending = scope.lock = 0,
                                       !.waiting = scope.lock # 0]]
    /\ ScopeUnchanged

(* A second passes while the INSERT waits for the lock (busy handler). *)
ScopeBusyWait(id) ==
    /\ scope.w[id].waiting
    /\ scope.lock # 0
    /\ scope.w[id].waited < DB_TIMEOUT
    /\ scope' = [scope EXCEPT !.w[id].waited = @ + 1]
    /\ ScopeUnchanged

(* The lock was released within the timeout: the INSERT goes on. *)
ScopeLockGranted(id) ==
    /\ scope.w[id].waiting
    /\ scope.lock = 0
    /\ scope' = [scope EXCEPT !.lock = id,
                              !.w[id] = [@ EXCEPT !.waiting = FALSE,
                                                  !.pending = TRUE]]
    /\ ScopeUnchanged

(* The timeout has passed with the lock still held: the INSERT raises       *)
(* sqlite3.OperationalError (database is locked), which leaves the body.    *)
ScopeLocked(id) ==
    /\ scope.w[id].waiting
    /\ scope.lock # 0
    /\ scope.w[id].waited = DB_TIMEOUT
    /\ LET o == get_connection_exit(scope.w[id], "locked", id, scope.file, scope.lock)
       IN  scope' = [scope EXCEPT !.file = o.file, !.lock = o.lock, !.w[id] = o.c]
    /\ ScopeUnchanged

(* The body ends: normally, or by an exception of its own. *)
ScopeExit(id) ==
    /\ scope.w[id].pc = "body"
    /\ ~scope.w[id].waiting
    /\ \E exc \in {"none", "body"} :
         LET o == get_connection_exit(scope.w[id], exc, id, scope.file, scope.lock)
         IN  scope' = [scope EXCEPT !.file = o.file, !.lock = o.lock, !.w[id] = o.c]
    /\ ScopeUnchanged

ScopeNext ==
    \E id \in Writers :
      \/ ScopeEnter(id)
      \/ ScopeInsert(id)
      \/ ScopeBusyWait(id)
      \/ ScopeLockGranted(id)
      \/ ScopeLocked(id)
      \/ ScopeExit(id)

ScopeSpec == Init /\ [][ScopeNext]_vars

(****************************** PaceMakerReader ***************************)
PmTables == {"usage_snapshots", "blockage_events", "langfuse_metrics"}

(* The states the collaborator's files can be in. *)
PmFileStates ==
    { PmFiles(FALSE, "absent", "absent", {}, FALSE, FALSE) }
    \cup { PmFiles(TRUE, config, dbfile, {}, FALSE, src) :
             config \in {"absent", "invalid", "valid"},
             dbfile \in {"absent", "corrupt"}, src \in BOOLEAN }
    \cup { f \in [dir : {TRUE}, config : {"absent", "invalid", "valid"}, db : {"ok"},
                  tables : SUBSET PmTables, rows : BOOLEAN, src : BOOLEAN] :
             f.rows => "usage_snapshots" \in f.tables }

is_installed(f) == f.dir /\ f.config # "absent"

(* None when the file is absent or json.load raises JSONDecodeError. *)
_read_config(f) == IF f.dir /\ f.config = "valid" THEN "config" ELSE "None"

(* config.get("enabled", False) of the valid config {"enabled": true}. *)
is_enabled(f) ==
    IF _read_config(f) = "None" THEN PmVal("False", FALSE, FALSE)
    ELSE PmVal("True", FALSE, FALSE)

(* A SELECT on table: None when usage.db is absent, and None from the       *)
(* except (sqlite3.Error, OSError) clause when the file is corrupt or the   *)
(* table is missing.                                                       *)
PmSelect(f, table) ==
    IF f.db = "absent" THEN "None"
    ELSE IF f.db = "corrupt" \/ table \notin f.tables THEN "None"
    ELSE "rows"

_get_latest_usage(f) ==
    IF PmSelect(f, "usage_snapshots") = "None" \/ ~f.rows THEN "None" ELSE "row"

get_status(f) ==
    IF ~is_installed(f) THEN PmVal("None", FALSE, FALSE)
    ELSE IF _read_config(f) = "None" THEN PmVal("None", FALSE, FALSE)
    ELSE IF _get_latest_usage(f) = "None" THEN PmVal("dict", FALSE, FALSE)
    (* from pacemaker import pacing_engine; except ImportError *)
    ELSE IF ~f.src THEN PmVal("dict", TRUE, TRUE)
    ELSE PmVal("dict", TRUE, FALSE)

get_blockage_stats(f) ==
    IF ~is_installed(f) THEN PmVal("None", FALSE, FALSE)
    ELSE IF PmSelect(f, "blockage_events") = "None" THEN PmVal("None", FALSE, FALSE)
    ELSE PmVal("dict", FALSE, FALSE)

get_blockage_stats_with_labels(f) == get_blockage_stats(f)

get_langfuse_metrics(f) ==
    IF PmSelect(f, "langfuse_metrics") = "None" THEN PmVal("None", FALSE, FALSE)
    ELSE PmVal("dict", FALSE, FALSE)

(* The method CodeMonitor.get_display calls at line 152: a best-effort      *)
(* read that degrades to None.                                              *)
get_secrets_metrics(f) ==
    IF PmSelect(f, "secrets_metrics") = "None" THEN PmVal("None", FALSE, FALSE)
    ELSE PmVal("dict", FALSE, FALSE)

(* The parameters of UsageRenderer.render_bottom_section. *)
render_bottom_section_params == {"pacemaker_status", "blockage_stats", "last_update"}

(* The arguments CodeMonitor.get_display passes to it. *)
render_bottom_section_args ==
    {"pacemaker_status", "blockage_stats", "last_update", "langfuse_metrics",
     "secrets_metrics"}

(* CodeMonitor.get_display: the value returned and whether it raises        *)
(* (TypeError for a keyword argument the renderer does not take).          *)
get_display(f) ==
    LET pacemaker_status ==
            IF is_installed(f) THEN get_status(f) ELSE PmVal("None", FALSE, FALSE)
        blockage_stats == get_blockage_stats_with_labels(f)
        langfuse_metrics == get_langfuse_metrics(f)
        secrets_metrics == get_secrets_metrics(f)
        bottom == pacemaker_status.t = "dict" /\ pacemaker_status.has_data
    IN  IF bottom /\ ~(render_bottom_section_args \subseteq render_bottom_section_params)
        THEN [ret |-> PmVal("None", FALSE, FALSE), raised |-> TRUE]
        ELSE [ret |-> PmVal("display", FALSE, FALSE), raised |-> FALSE]

PmUnchanged ==
    UNCHANGED <<now, usage_snapshots, console_usage_snapshots, last, ticks, NotPm>>

PmInit ==
    /\ now = T0
    /\ cache = NewReader(PmFiles(FALSE, "absent", "absent", {}, FALSE, FALSE))
    /\ pager = NoPagination
    /\ tx = NoStore
    /\ usage_snapshots = {}
    /\ console_usage_snapshots = {}
    /\ last = NoCall
    /\ ticks = 0
    /\ db = "ready"
    /\ console = NewConsole(TRUE)
    /\ scope = NoScopes
    /\ \E f \in PmFileStates : pm = [NoPaceMaker EXCEPT !.files = f]
    /\ code = NewCode("Linux", NoToken, NoToken, T0)

PmQuery(op, ret) ==
    /\ pm' = [pm EXCEPT !.op = op, !.ret = ret, !.raised = FALSE]
    /\ PmUnchanged

IsInstalled ==
    PmQuery("is_installed",
            PmVal(IF is_installed(pm.files) THEN "True" ELSE "False", FALSE, FALSE))

IsEnabled == PmQuery("is_enabled", is_enabled(pm.files))

GetStatus == PmQuery("get_status", get_status(pm.files))

GetBlockageStats == PmQuery("get_blockage_stats", get_blockage_stats(pm.files))

GetLangfuseMetrics == PmQuery("get_langfuse_metrics", get_langfuse_metrics(pm.files))

CodeGetDisplay ==
    /\ LET o == get_display(pm.files)
       IN  pm' = [pm EXCEPT !.op = "get_display", !.ret = o.ret, !.raised = o.raised]
    /\ PmUnchanged

PmNext ==
    \/ IsInstalled
    \/ IsEnabled
    \/ GetStatus
    \/ GetBlockageStats
    \/ GetLangfuseMetrics
    \/ CodeGetDisplay

PmSpec == PmInit /\ [][PmNext]_vars

(******************************* CodeMonitor ******************************)
(* Tokens that are expired at T0, that expire during the run, and that     *)
(* stay valid.                                                             *)
Tokens ==
    { NoToken, Token("invalid", 0), Token("empty", 0),
      Token("token", T0 - 1000), Token("token", T0 + TOKEN_BUFFER + 15),
      Token("token", T0 + 100000) }

(* CodeMonitor._load_credentials *)
_load_credentials(self, t) ==
    LET o == load_credentials(self.platform, self.file, self.keychain, t)
    IN  [self EXCEPT !.credentials = o.credentials, !.file = o.file,
                     !.error_message = IF o.error # "None" THEN o.error ELSE @,
                     !.reloads = @ + 1,
                     !.keychain_calls = IF o.consulted THEN @ + 1 ELSE @,
                     !.refreshed = @ \/ ~is_token_expired(o.credentials, t),
                     !.load = [credentials |-> o.credentials, error |-> o.error,
                               consulted |-> o.consulted, t |-> t]]

(* fetch_usage calling _load_credentials first on every call. *)
fetch_usage_alwaysreload(self, answer, t) ==
    LET s0 == [self EXCEPT !.held = self.credentials, !.reloads = 0,
                           !.keychain_calls = 0]
        s2 == _load_credentials(s0, t)
    IN  IF s2.credentials.kind # "token" \/ is_token_expired(s2.credentials, t)
        THEN [s2 EXCEPT !.ret = "False", !.requested = FALSE]
        ELSE IF answer = "ok"
        THEN [s2 EXCEPT !.last_usage = TRUE, !.error_message = "None",
                        !.ret = "True", !.requested = TRUE]
        ELSE [s2 EXCEPT !.error_message = "api", !.ret = "False", !.requested = TRUE]

(* CodeMonitor.fetch_usage at second t; answer is what the usage API gives  *)
(* when it is asked ("ok" with data, or an "error").                       *)
fetch_usage(self, answer, t) ==
    LET s0 == [self EXCEPT !.held = self.credentials, !.reloads = 0,
                           !.keychain_calls = 0]
        s1 == IF s0.credentials.kind # "token" THEN _load_credentials(s0, t)
              ELSE s0
    IN  IF s1.credentials.kind # "token"
        THEN [s1 EXCEPT !.ret = "False", !.requested = FALSE]
        ELSE
          LET expired == is_token_expired(s1.credentials, t)
              s2 == IF expired THEN _load_credentials(s1, t) ELSE s1
          IN  IF expired /\ (s2.credentials.kind # "token"
                             \/ is_token_expired(s2.credentials, t))
              THEN [s2 EXCEPT !.ret = "False", !.requested = FALSE]
              ELSE IF answer = "ok"
              THEN [s2 EXCEPT !.last_usage = TRUE, !.error_message = "None",
                              !.ret = "True", !.requested = TRUE]
              ELSE [s2 EXCEPT !.error_message = "api", !.ret = "False",
                              !.requested = TRUE]

CodeUnchanged ==
    UNCHANGED <<usage_snapshots, console_usage_snapshots, last, ticks, NotCode>>

CodeInit ==
    /\ now = T0
    /\ cache = NewReader(PmFiles(FALSE, "absent", "absent", {}, FALSE, FALSE))
    /\ pager = NoPagination
    /\ tx = NoStore
    /\ usage_snapshots = {}
    /\ console_usage_snapshots = {}
    /\ last = NoCall
    /\ ticks = 0
    /\ db = "ready"
    /\ console = NewConsole(TRUE)
    /\ scope = NoScopes
    /\ pm = NoPaceMaker
    /\ \E platform \in {"Linux", "Darwin"}, file \in Tokens, keychain \in Tokens :
         /\ platform = "Linux" => keychain = NoToken
         /\ code = NewCode(platform, file, keychain, T0)

(* run: display = self.get_display(); live.update(...), before the fetch    *)
(* and again after it.                                                      *)
CodeRender ==
    /\ code.pc \in {"display", "display_again"}
    /\ code' = [code EXCEPT !.pc = IF @ = "display" THEN "fetch" ELSE "sleep",
                            !.op = "get_display"]
    /\ UNCHANGED now
    /\ CodeUnchanged

(* run: self.fetch_usage() *)
CodeFetchUsage ==
    /\ code.pc = "fetch"
    /\ \E answer \in {"ok", "error"} :
         code' = [fetch_usage(code, answer, now) EXCEPT
                    !.pc = "display_again", !.op = "fetch_usage", !.t = now]
    /\ UNCHANGED now
    /\ CodeUnchanged

(* run: time.sleep(self.POLL_INTERVAL) *)
CodeSleep ==
    /\ code.pc = "sleep"
    /\ code.cycles < MaxCycles
    /\ now' = now + CODE_POLL_INTERVAL
    /\ code' = [code EXCEPT !.pc = "display", !.cycles = @ + 1, !.op = "sleep"]
    /\ CodeUnchanged

(* The user runs claude, which writes a fresh token to the credentials      *)
(* file (and the Keychain on macOS).                                       *)
CodeLogin ==
    /\ code.file # Token("token", T0 + 100000)
    /\ code' = [code EXCEPT !.file = Token("token", T0 + 100000),
                            !.keychain = IF code.platform = "Darwin"
                                         THEN Token("token", T0 + 100000) ELSE @,
                            !.op = "login"]
    /\ UNCHANGED now
    /\ CodeUnchanged

(* run: except KeyboardInterrupt: return 0 *)
CodeInterrupt ==
    /\ code.pc \in {"display", "fetch", "display_again", "sleep"}
    /\ code' = [code EXCEPT !.pc = "stopped", !.op = "interrupt"]
    /\ UNCHANGED now
    /\ CodeUnchanged

CodeNext ==
    \/ CodeRender
    \/ CodeFetchUsage
    \/ CodeSleep
    \/ CodeLogin
    \/ CodeInterrupt

CodeSpec == CodeInit /\ [][CodeNext]_vars

(******************* a store call, statement by statement ******************)
(* The table a store of this kind writes, as committed in the file. *)
Table(kind) == IF kind = "usage" THEN usage_snapshots ELSE console_usage_snapshots

(* The row store_snapshot / store_console_snapshot builds from its inputs. *)
SnapshotRow(kind, in, t) ==
    IF kind = "usage"
    THEN UsageRow(t, Get(in[1], "used_credits", Num(0)),
                  Get(Get(in[2], "five_hour", NoFiveHour), "utilization", Num(0)),
                  Get(Get(in[2], "five_hour", NoFiveHour), "resets_at", EmptyStr))
    ELSE ConsoleRow(t, Get(in[1], "total_cost_usd", Num(0)), "[]")

StoreCalls(t) ==
    {<<"usage", in>> : in \in StoreInputs(t)}
      \cup {<<"console", <<c>> >> : c \in CostInputs}

(* The statements of the try block, where a KeyboardInterrupt unwinds       *)
(* through finally: conn.close().                                           *)
InTry == {"got_conn", "cursor", "inserted", "deleted"}

(* One statement of the call on the committed table; interrupt is TRUE      *)
(* when Ctrl+C arrives instead.  INSERT and DELETE act on the rows held by  *)
(* the connection, conn.commit() publishes them, conn.close() drops what    *)
(* was not committed.                                                       *)
store_step(c, table, interrupt) ==
    IF interrupt /\ c.pc \in InTry
    THEN [tx |-> [c EXCEPT !.pc = "finally", !.exc = "KeyboardInterrupt"], table |-> table]
    ELSE IF interrupt
    THEN [tx |-> [c EXCEPT !.pc = "returned", !.raised = "KeyboardInterrupt",
                           !.pending = table],
          table |-> table]
    ELSE IF c.pc = "try"
    THEN [tx |-> [c EXCEPT !.pc = "got_conn", !.attrs = get_connection(FALSE).attrs],
          table |-> table]
    ELSE IF c.pc = "got_conn"
    THEN [tx |-> IF HasAttr(c, "cursor") THEN [c EXCEPT !.pc = "cursor"]
                 ELSE [c EXCEPT !.pc = "finally", !.exc = "AttributeError"],
          table |-> table]
    ELSE IF c.pc = "cursor"
    THEN [tx |-> [c EXCEPT !.pc = "inserted",
                           !.pending = InsertOrReplace(@, CHOOSE r \in c.row : TRUE)],
          table |-> table]
    ELSE IF c.pc = "inserted"
    THEN [tx |-> [c EXCEPT !.pc = "deleted",
                           !.pending = DeleteOlder(@, c.t - HISTORY_RETENTION)],
          table |-> table]
    ELSE IF c.pc = "deleted"
    THEN [tx |-> [c EXCEPT !.pc = "finally"], table |-> c.pending]
    ELSE IF c.pc = "finally"
    THEN [tx |-> IF ~HasAttr(c, "close")
                 THEN [c EXCEPT !.pc = "except", !.exc = "AttributeError",
                                !.pending = table]
                 ELSE IF c.exc = "None"
                 THEN [c EXCEPT !.pc = "returned", !.ret = "True", !.pending = table]
                 ELSE [c EXCEPT !.pc = "except", !.pending = table],
          table |-> table]
    ELSE (* "except": only store_snapshot has except Exception: return False *)
         [tx |-> IF c.kind = "usage" /\ c.exc = "AttributeError"
                 THEN [c EXCEPT !.pc = "returned", !.ret = "False", !.exc = "None"]
                 ELSE [c EXCEPT !.pc = "returned", !.raised = c.exc],
          table |-> table]

TxUnchanged == UNCHANGED <<now, last, ticks, NotTx>>

SetTable(kind, table) ==
    /\ usage_snapshots' = IF kind = "usage" THEN table ELSE usage_snapshots
    /\ console_usage_snapshots' = IF kind = "console" THEN table ELSE console_usage_snapshots

(* store_snapshot(overage_data, usage_data) / store_console_snapshot(mtd_data, *)
(* workspaces) is entered: the guard on its inputs and the row it builds.     *)
TxCall ==
    /\ tx.pc = "idle"
    /\ \E call \in StoreCalls(now) :
         LET kind == call[1]
             in == call[2]
             ok == \A i \in 1..Len(in) : Truthy(in[i])
         IN  tx' = IF ok
                   THEN [NoStore EXCEPT !.pc = "try", !.kind = kind, !.started = TRUE,
                                        !.before = Table(kind), !.pending = Table(kind),
                                        !.seen = Table(kind),
                                        !.row = {SnapshotRow(kind, in, now)}, !.t = now]
                   ELSE [NoStore EXCEPT !.pc = "returned", !.kind = kind,
                                        !.before = Table(kind), !.pending = Table(kind),
                                        !.seen = Table(kind), !.t = now, !.ret = "False"]
    /\ UNCHANGED <<usage_snapshots, console_usage_snapshots>>
    /\ TxUnchanged

TxStep ==
    /\ tx.pc \notin {"idle", "returned"}
    /\ \E interrupt \in BOOLEAN :
         LET o == store_step(tx, Table(tx.kind), interrupt)
         IN  /\ tx' = o.tx
             /\ SetTable(tx.kind, o.table)
    /\ TxUnchanged

(* Another connection reads the table while the call is under way. *)
TxRead ==
    /\ tx.pc \notin {"idle", "returned"}
    /\ tx.reads < MaxReads
    /\ tx' = [tx EXCEPT !.seen = Table(tx.kind), !.reads = @ + 1]
    /\ UNCHANGED <<usage_snapshots, console_usage_snapshots>>
    /\ TxUnchanged

TxReturn ==
    /\ tx.pc = "returned"
    /\ tx' = NoStore
    /\ UNCHANGED <<usage_snapshots, console_usage_snapshots>>
    /\ TxUnchanged

TxWriter ==
    /\ tx.pc = "idle"
    /\ (SqliteInsertUsage \/ SqliteInsertConsole)

TxNext ==
    \/ TxCall
    \/ TxStep
    \/ TxRead
    \/ TxReturn
    \/ TxWriter

TxSpec == Init /\ [][TxNext]_vars

(******************* ConsoleAPIClient._handle_pagination *******************)
(* What requests.get gives for one page: an exception (timeout, network),  *)
(* a status other than 200, a 200 whose body is not JSON, or a 200 with a   *)
(* JSON object: whether it has "data" and how many items, has_more          *)
(* ("absent", "true", "false"), which next-page key it carries ("none",    *)
(* "next_page_token", "next_page") and that key's value ("None", "" or a    *)
(* token).                                                                  *)
Response(kind, has_data, n, has_more, style, token) ==
    [kind |-> kind, has_data |-> has_data, n |-> n, has_more |-> has_more,
     style |-> style, token |-> token]

Failures == {"timeout", "network", "429", "401", "403", "500", "badjson"}

Responses ==
    {Response(k, FALSE, 0, "absent", "none", "None") : k \in Failures}
      \cup {Response("ok", d[1], d[2], h, t[1], t[2]) :
              d \in {<<FALSE, 0>>, <<TRUE, 0>>, <<TRUE, 1>>, <<TRUE, 2>>},
              h \in {"absent", "true", "false"},
              t \in {<<"none", "None">>, <<"next_page_token", "None">>,
                     <<"next_page_token", "">>, <<"next_page_token", "tok">>,
                     <<"next_page", "2">>}}

(* The items of the k-th page: k*10 + 1 .. k*10 + n. *)
Items(k, r) == IF r.has_data THEN [i \in 1..r.n |-> k * 10 + i] ELSE <<>>

ErrorOf(kind) ==
    CASE kind = "timeout" -> "Request timed out"
      [] kind = "network" -> "Network error"
      [] kind = "429" -> "Rate limit exceeded"
      [] kind \in {"401", "403"} -> "Authentication failed"
      [] kind = "500" -> "API error"
      [] OTHER -> "Failed to parse JSON response"

(* The request of one pass of "while has_more": the page parameter added to  *)
(* params.                                                                  *)
PageRequest(st) ==
    IF st.next_page \notin {"None", ""} /\ st.page_param_key # "None"
    THEN [key |-> st.page_param_key, value |-> st.next_page]
    ELSE [key |-> "None", value |-> "None"]

(* _handle_pagination returning on a failed page what it has gathered. *)
pagination_pass_keepitems(st, r) ==
    LET k == Len(st.requests) + 1
        sent == [st EXCEPT !.requests = Append(@, PageRequest(st)),
                           !.pages = Append(@, r)]
    IN  IF r.kind # "ok"
        THEN [sent EXCEPT !.pc = "done", !.data = st.all_data,
                          !.returned_data = TRUE, !.error = ErrorOf(r.kind)]
        ELSE
          LET all_data == st.all_data \o Items(k, r)
              next_page == IF r.style = "none" THEN "None" ELSE r.token
              key == IF r.style = "next_page_token" THEN "page_token"
                     ELSE IF r.style = "next_page" THEN "page"
                     ELSE st.page_param_key
              has_more == (r.has_more = "true") /\ next_page \notin {"None", ""}
          IN  IF has_more
              THEN [sent EXCEPT !.all_data = all_data, !.next_page = next_page,
                                !.page_param_key = key, !.has_more = TRUE]
              ELSE [sent EXCEPT !.all_data = all_data, !.next_page = next_page,
                                !.page_param_key = key, !.has_more = FALSE,
                                !.pc = "done", !.data = all_data,
                                !.returned_data = TRUE, !.error = "None"]

(* One pass of the loop of _handle_pagination, r being what the request    *)
(* gives, and the return when the loop ends.                                *)
pagination_pass(st, r) ==
    LET k == Len(st.requests) + 1
        sent == [st EXCEPT !.requests = Append(@, PageRequest(st)),
                           !.pages = Append(@, r)]
    IN  IF r.kind # "ok"
        THEN [sent EXCEPT !.pc = "done", !.data = <<>>, !.returned_data = FALSE,
                          !.error = ErrorOf(r.kind)]
        ELSE
          LET all_data == st.all_data \o Items(k, r)
              next_page == IF r.style = "none" THEN "None" ELSE r.token
              key == IF r.style = "next_page_token" THEN "page_token"
                     ELSE IF r.style = "next_page" THEN "page"
                     ELSE st.page_param_key
              has_more == (r.has_more = "true") /\ next_page \notin {"None", ""}
          IN  IF has_more
              THEN [sent EXCEPT !.all_data = all_data, !.next_page = next_page,
                                !.page_param_key = key, !.has_more = TRUE]
              ELSE [sent EXCEPT !.all_data = all_data, !.next_page = next_page,
                                !.page_param_key = key, !.has_more = FALSE,
                                !.pc = "done", !.data = all_data,
                                !.returned_data = TRUE, !.error = "None"]

PagerUnchanged ==
    UNCHANGED <<now, usage_snapshots, console_usage_snapshots, last, ticks, NotPager>>

(* _handle_pagination(url, params, headers) is called. *)
PagerCall ==
    /\ pager.pc \in {"idle", "done"}
    /\ pager' = [NoPagination EXCEPT !.pc = "loop"]
    /\ PagerUnchanged

PagerPass ==
    /\ pager.pc = "loop"
    /\ Len(pager.requests) < MaxPages
    /\ \E r \in Responses : pager' = pagination_pass(pager, r)
    /\ PagerUnchanged

PagerNext ==
    \/ PagerCall
    \/ PagerPass

PagerSpec == Init /\ [][PagerNext]_vars

(**************** PaceMakerReader.get_blockage_stats_cached *****************)
(* The files with a usable blockage_events table, and without usage.db. *)
CacheFilesOk == PmFiles(TRUE, "valid", "ok", {"blockage_events"}, FALSE, FALSE)
CacheFilesNoDb == PmFiles(TRUE, "valid", "absent", {}, FALSE, FALSE)

(* get_blockage_stats with the counts of the events of the last hour. *)
blockage_counts(f, events) ==
    IF get_blockage_stats(f).t = "None" THEN NoStats ELSE Stats("dict", events)

(* get_blockage_stats gets as far as sqlite3.connect and its SELECT. *)
connects(f) == is_installed(f) /\ f.db # "absent"

(* get_blockage_stats_cached serving any cached result, however old. *)
get_blockage_stats_cached_nottl(self, current_time) ==
    LET rec == [self EXCEPT !.op = "get_blockage_stats_cached", !.t = current_time,
                            !.called = TRUE, !.fetched = self.called,
                            !.prev = self._blockage_stats_cache,
                            !.prev_time = self._blockage_stats_cache_time]
    IN  IF self._blockage_stats_cache.t # "None"
        THEN [rec EXCEPT !.ret = self._blockage_stats_cache, !.queried = FALSE,
                         !.connected = FALSE]
        ELSE
          LET fresh_stats == blockage_counts(self.files, self.events)
          IN  [rec EXCEPT !._blockage_stats_cache = fresh_stats,
                          !._blockage_stats_cache_time = current_time,
                          !.ret = fresh_stats, !.queried = TRUE,
                          !.connected = connects(self.files)]

(* PaceMakerReader.get_blockage_stats_cached at time current_time; prev,    *)
(* prev_time and fetched record the cache as the call found it, queried     *)
(* whether it called get_blockage_stats and connected whether that reached  *)
(* the database.                                                            *)
get_blockage_stats_cached(self, current_time) ==
    LET rec == [self EXCEPT !.op = "get_blockage_stats_cached", !.t = current_time,
                            !.called = TRUE, !.fetched = self.called,
                            !.prev = self._blockage_stats_cache,
                            !.prev_time = self._blockage_stats_cache_time]
    IN  IF /\ self._blockage_stats_cache.t # "None"
           /\ current_time - self._blockage_stats_cache_time < CACHE_TTL_SECONDS
        THEN [rec EXCEPT !.ret = self._blockage_stats_cache, !.queried = FALSE,
                         !.connected = FALSE]
        ELSE
          LET fresh_stats == blockage_counts(self.files, self.events)
          IN  [rec EXCEPT !._blockage_stats_cache = fresh_stats,
                          !._blockage_stats_cache_time = current_time,
                          !.ret = fresh_stats, !.queried = TRUE,
                          !.connected = connects(self.files)]

CacheUnchanged ==
    UNCHANGED <<usage_snapshots, console_usage_snapshots, last, ticks, NotCache>>

CacheGet ==
    /\ cache' = get_blockage_stats_cached(cache, now)
    /\ UNCHANGED now
    /\ CacheUnchanged

(* The pace-maker hook records a blockage event. *)
CacheInsertEvent ==
    /\ cache.files = CacheFilesOk
    /\ cache.events < MaxEvents
    /\ cache' = [cache EXCEPT !.events = @ + 1, !.op = "insert"]
    /\ UNCHANGED now
    /\ CacheUnchanged

(* usage.db appears (pace-maker writes it) or is removed. *)
CacheFilesChange ==
    /\ \E f \in {CacheFilesOk, CacheFilesNoDb} :
         /\ f # cache.files
         /\ cache' = [cache EXCEPT !.files = f, !.op = "files",
                                   !.events = IF f = CacheFilesOk THEN @ ELSE 0]
    /\ UNCHANGED now
    /\ CacheUnchanged

CacheTick ==
    /\ \E d \in {1, 4} :
         /\ now + d <= T0 + MaxClock
         /\ now' = now + d
    /\ UNCHANGED cache
    /\ CacheUnchanged

CacheNext ==
    \/ CacheGet
    \/ CacheInsertEvent
    \/ CacheFilesChange
    \/ CacheTick

CacheSpec == Init /\ [][CacheNext]_vars

(*********** the two calculate_console_mtd_rate side by side ***************)
(* Ages of the console snapshots the two estimators are compared on: the    *)
(* second of the call, inside the 30-minute window, two hours, beyond the   *)
(* retention.                                                              *)
CompatAges == {0, 1200, 7200, 604801}

CompatInsert ==
    /\ Cardinality(console_usage_snapshots) < MaxRows
    /\ \E age \in CompatAges, v \in CostValues :
         /\ \A r \in console_usage_snapshots : r.timestamp # now - age
         /\ console_usage_snapshots' =
              console_usage_snapshots \cup {ConsoleRow(now - age, Num(v), "[]")}
    /\ last' = NoCall
    /\ UNCHANGED <<ext, now, usage_snapshots, ticks>>

(* Both methods called with the same current cost in the same second; val   *)
(* holds the answer of ConsoleAnalytics, rate that of CodeAnalytics.        *)
CompareConsoleMtdRate ==
    \E current_mtd_cost \in CurrentCosts :
      LET o == calculate_console_mtd_rate(current_mtd_cost, now, console_usage_snapshots)
          c == compat_console_mtd_rate(current_mtd_cost, now, console_usage_snapshots)
      IN  /\ last' = Call("compare_console_mtd_rate", now, NoneDict, UsageNone, NoneDict,
                          current_mtd_cost, c.ret, None, FALSE, o.ret, NoProjection,
                          o.raised \/ c.raised, o.calls + c.calls, o.sql + c.sql)
          /\ UNCHANGED <<ext, now, usage_snapshots, console_usage_snapshots, ticks>>

CompatNext ==
    \/ CompatInsert
    \/ CompareConsoleMtdRate
    \/ Tick

CompatSpec == Init /\ [][CompatNext]_vars

(******************************* claims ***********************************)
IsStore(c) == c.op = "store_snapshot" /\ WellFormedCode(c.overage, c.usage)
IsConsoleStore(c) == c.op = "store_console_snapshot" /\ WellFormedConsole(c.cost)

(* What the retention sweep at second t must leave of table `before`. *)
Pruned(before, after, t) ==
    /\ \A r \in after : ~(r.timestamp < t - HISTORY_RETENTION)
    /\ \A r \in before :
         r.timestamp >= t - HISTORY_RETENTION =>
           \E q \in after : q.timestamp = r.timestamp

(* C1: after every well-formed store_snapshot / store_console_snapshot at   *)
(* time now, the table holds no row with timestamp < now - 604800, and      *)
(* every earlier row with timestamp >= now - 604800 is still present.       *)
C1_RetentionOnWrite ==
    [][ /\ IsStore(last') => Pruned(usage_snapshots, usage_snapshots', now)
        /\ IsConsoleStore(last') =>
             Pruned(console_usage_snapshots, console_usage_snapshots', now) ]_vars

(* C2: the table never holds two rows with the same timestamp, and after a  *)
(* well-formed store_snapshot there is exactly one row for that second,     *)
(* holding the values of that (latest) call.                                *)
C2_OneRowPerSecond ==
    /\ \A r, q \in usage_snapshots : r.timestamp = q.timestamp => r = q
    /\ IsStore(last) =>
         /\ Cardinality({r \in usage_snapshots : r.timestamp = last.t}) = 1
         /\ \A r \in usage_snapshots :
              r.timestamp = last.t => r.credits_used = last.overage.used_credits

(* The reference snapshot of the window search as the specification words   *)
(* it: the oldest snapshot inside the smallest window holding any snapshot. *)
WindowsWithData(rows, t) ==
    {i \in 1..Len(windows) : \E r \in rows : r.timestamp >= t - windows[i]}

Reference(rows, t) ==
    LET i == CHOOSE i \in WindowsWithData(rows, t) :
                 \A j \in WindowsWithData(rows, t) : i <= j
    IN  CHOOSE r \in rows :
          /\ r.timestamp >= t - windows[i]
          /\ \A q \in rows : q.timestamp >= t - windows[i] => r.timestamp <= q.timestamp

(* The rows the estimator called last reads, as (timestamp, value) pairs. *)
RowsOf(c) ==
    IF c.op = "calculate_usage_rate"
    THEN Column(usage_snapshots, "credits_used")
    ELSE Column(console_usage_snapshots, "mtd_cost")

IsRate(c) == c.op \in {"calculate_usage_rate", "calculate_console_mtd_rate"}

(* The estimator was called with a current value and the reference lies in  *)
(* the past (zero and negative elapsed time are clock anomalies) and holds  *)
(* a value.                                                                *)
HasReference(c) ==
    /\ IsRate(c) /\ ~IsNone(c.cur)
    /\ WindowsWithData(RowsOf(c), c.t) # {}
    /\ Reference(RowsOf(c), c.t).timestamp < c.t
    /\ ~IsNone(Reference(RowsOf(c), c.t).value)

(* C3: the estimators take the oldest snapshot of the smallest window that  *)
(* holds one; with a positive delta the rate is                             *)
(* (current - old_value) / (now - old_timestamp) * 3600.                    *)
C3_SmallestWindowRate ==
    HasReference(last) =>
      LET ref == Reference(RowsOf(last), last.t)
          delta == last.cur.n - ref.value.n
      IN  delta > 0 =>
            /\ ~IsNone(last.val)
            /\ last.val.n * (last.t - ref.timestamp) = last.val.d * delta * 3600

(* C4: when the reference snapshot's value is equal to or greater than the  *)
(* current value, the estimator returns exactly 0.                          *)
C4_NoIncreaseIsZero ==
    HasReference(last) =>
      (Reference(RowsOf(last), last.t).value.n >= last.cur.n => last.val = Num(0))

(* C5: with an empty snapshot table the estimators return None for every    *)
(* current value; with a None current value they return None without        *)
(* calling get_connection or running a query.                               *)
C5_NoDataIsNone ==
    IsRate(last) =>
      /\ RowsOf(last) = {} => IsNone(last.val)
      /\ IsNone(last.cur) => IsNone(last.val) /\ last.calls = 0 /\ last.sql = 0

C5_Witness ==
    /\ last.op = "calculate_usage_rate" /\ IsNone(last.cur)
    /\ usage_snapshots # {} /\ IsNone(last.val) /\ last.calls = 0

(* C6: whatever the table holds (a snapshot later than now, a snapshot with *)
(* a larger value than the current one), the estimators return None or a    *)
(* rate >= 0 and do not raise.                                              *)
C6_RateNeverNegative ==
    IsRate(last) => ~last.raised /\ (IsNone(last.val) \/ last.val.n >= 0)

C6_Witness ==
    /\ last.op = "calculate_usage_rate" /\ ~IsNone(last.cur)
    /\ \E r \in usage_snapshots : r.timestamp > last.t
    /\ \E r \in usage_snapshots : r.credits_used.n > last.cur.n
    /\ ~last.raised

(* C7: project_console_eom_cost(current, rate, hours) is current + rate *   *)
(* hours for non-null inputs with hours >= 0 (10, 2, 360 gives 730; rate 0  *)
(* gives current), and None whenever the rate is None.                      *)
C7_ProjectionLinear ==
    last.op = "project_console_eom_cost" =>
      /\ IsNone(last.rate) => IsNone(last.val)
      /\ (~IsNone(last.cur) /\ ~IsNone(last.rate) /\ ~IsNone(last.hours)
            /\ last.hours.n >= 0) =>
           /\ ~IsNone(last.val)
           /\ last.val.n * last.cur.d * last.rate.d * last.hours.d =
                last.val.d * (last.cur.n * last.rate.d * last.hours.d
                              + last.rate.n * last.hours.n * last.cur.d)
      /\ (last.cur = Num(10) /\ last.rate = Num(2) /\ last.hours = Num(360)) =>
           last.val = Num(730)
      /\ (~IsNone(last.cur) /\ last.rate = Num(0) /\ ~IsNone(last.hours)) =>
           last.val = last.cur

C7_Witness ==
    /\ last.op = "project_console_eom_cost"
    /\ last.cur = Num(10) /\ last.rate = Num(2) /\ last.hours = Num(360)
    /\ last.val = Num(730)

(* project_usage was given usable data whose resets_at lies before now. *)
PastReset(c) ==
    /\ c.op = "project_usage" /\ Truthy(c.overage) /\ Truthy(c.usage)
    /\ "five_hour" \in c.usage.keys /\ "resets_at" \in c.usage.five_hour.keys
    /\ c.usage.five_hour.resets_at.kind \in {"utc", "naive"}
    /\ c.usage.five_hour.resets_at.at < c.t

(* The same, with an earlier snapshot inside the retention horizon in the   *)
(* table, so that there is history to take a rate from.                     *)
PastResetWithHistory(c) ==
    /\ PastReset(c)
    /\ \E r \in usage_snapshots :
         r.timestamp < c.t /\ r.timestamp >= c.t - HISTORY_RETENTION

PastEom(c) ==
    /\ c.op = "project_console_eom_cost"
    /\ ~IsNone(c.cur) /\ ~IsNone(c.rate) /\ ~IsNone(c.hours) /\ c.hours.n < 0

C9_EndToEnd ==
    [][ ( /\ last.op = "store_snapshot" /\ last.overage = Credits(200)
          /\ last.usage = GoodUsage(now)
          /\ {r \in Column(usage_snapshots, "credits_used") : r.timestamp # now}
               = {[timestamp |-> now - 1800, value |-> Num(100)]} )
        =>
        /\ (last'.op = "calculate_usage_rate" /\ last'.cur = Num(200)) =>
             last'.val = Num(200)
        /\ (last'.op = "project_usage" /\ last'.overage = Credits(200)
              /\ last'.usage = GoodUsage(now)) =>
             /\ last'.proj.t = "dict"
             /\ last'.proj.projected_credits = Num(600) ]_vars

(* The observation lacks its required measure. *)
LacksMeasure(c) ==
    \/ c.op = "store_snapshot" /\ ~WellFormedCode(c.overage, c.usage)
    \/ c.op = "store_console_snapshot" /\ ~WellFormedConsole(c.cost)

(* The observation itself is None or empty. *)
EmptyObservation(c) ==
    \/ c.op = "store_snapshot" /\ (~Truthy(c.overage) \/ ~Truthy(c.usage))
    \/ c.op = "store_console_snapshot" /\ ~Truthy(c.cost)

Rejected(c) == ~c.ok /\ ~c.raised /\ c.sql = 0

C11_InitFailureContained ==
    /\ last.op = "__init__" => ~last.raised
    /\ (db \in FailedDb /\ last.op \in {"store_snapshot", "store_console_snapshot"}) =>
         (~last.raised /\ last.ok = FALSE)
    /\ (db \in FailedDb /\ IsRate(last)) =>
         (~last.raised /\ IsNone(last.val))

(* C12: a storage fault during a poll cycle never ends the poll loop: run  *)
(* is left only by an interrupt, never by an exception of the snapshot     *)
(* store or the rate estimator.                                            *)
C12_FaultNeverEndsLoop == console.pc # "crashed"

(* C15: every poll cycle whose API fetch succeeded has a snapshot row for  *)
(* that cycle's timestamp in the snapshot store.                           *)
C15_SnapshotPerCycle ==
    console.success =>
      \E r \in console_usage_snapshots : r.timestamp = console.fetch_t

(* Positions of a step in the steps of the current cycle. *)
At(step) == {i \in 1..Len(console.steps) : console.steps[i] = step}

WroteAndLeft(id) ==
    /\ scope.w[id].pc = "done" /\ scope.w[id].wrote /\ ~scope.w[id].readonly

(* C13: when two writers use the scoped get_connection pattern on the same *)
(* file and their writes overlap, both writes get committed (the later one *)
(* waits for the lock) and neither is lost silently.                       *)
C13_BothCommitted ==
    \A id \in Writers :
      (WroteAndLeft(id) /\ scope.w[id].exc # "body") => id \in scope.file

(* C13 with the limit of the busy timeout: a write whose scope ended        *)
(* normally is committed; a write is given up only after it has waited the  *)
(* whole DB_TIMEOUT for the lock, and then by an exception, not silently.   *)
C13_CommittedOrLockedError ==
    \A id \in Writers :
      /\ (WroteAndLeft(id) /\ scope.w[id].exc = "none") => id \in scope.file
      /\ (WroteAndLeft(id) /\ id \notin scope.file) =>
           scope.w[id].exc \in {"locked", "body"}
      /\ scope.w[id].exc = "locked" => scope.w[id].waited = DB_TIMEOUT
      /\ scope.w[id].waiting => scope.lock \notin {id}

C13_Witness ==
    /\ scope.file = Writers
    /\ \E id \in Writers : scope.w[id].waited > 0

(* C14: every connection get_connection opened is released on every exit   *)
(* path of its scope: committed and then closed when a non-readonly scope  *)
(* ends normally; closed with none of the scope's changes committed when   *)
(* the scope ends by an exception.                                         *)
C14_ReleasedOnEveryPath ==
    \A id \in Writers :
      LET c == scope.w[id]
          n == Len(c.calls)
      IN  c.pc = "done" =>
            /\ c.conn # "open"
            /\ scope.lock # id
            /\ c.conn = "closed" => c.calls[n] = "close"
            /\ (c.exc = "none" /\ ~c.readonly) =>
                 /\ n >= 2 /\ c.calls[n - 1] = "commit"
                 /\ c.wrote => id \in scope.file
            /\ c.exc # "none" =>
                 /\ id \notin scope.file
                 /\ \A i \in 1..n : c.calls[i] # "commit"

C14_Witness ==
    \E a, b \in Writers :
      /\ scope.w[a].pc = "done" /\ scope.w[a].exc = "none" /\ a \in scope.file
      /\ scope.w[b].pc = "done" /\ scope.w[b].exc = "body" /\ scope.w[b].wrote
      /\ scope.w[b].conn = "closed"

(* Some pace-maker file is absent: the directory, config.json, usage.db,   *)
(* a table of it, or usage.db is corrupt.                                  *)
SomethingAbsent(f) ==
    \/ ~f.dir \/ f.config = "absent" \/ f.db \in {"absent", "corrupt"}
    \/ f.tables # PmTables

(* C18: with any combination of absent pace-maker files the queries of     *)
(* PaceMakerReader return None / False / defaults and never raise, and     *)
(* CodeMonitor.get_display returns a display.                              *)
C18_AbsentFilesDegrade ==
    (SomethingAbsent(pm.files) /\ pm.op # "none") =>
      /\ ~pm.raised
      /\ pm.op = "get_display" => pm.ret.t = "display"
      /\ (pm.op \in {"get_status", "get_blockage_stats"} /\ ~is_installed(pm.files)) =>
           pm.ret.t = "None"
      /\ (pm.op = "is_enabled" /\ pm.files.config = "absent") => pm.ret.t = "False"
      /\ (pm.op = "get_status" /\ pm.ret.t = "dict"
            /\ (pm.files.db # "ok" \/ "usage_snapshots" \notin pm.files.tables)) =>
           ~pm.ret.has_data
      /\ (pm.op = "get_blockage_stats"
            /\ (pm.files.db # "ok" \/ "blockage_events" \notin pm.files.tables)) =>
           pm.ret.t = "None"
      /\ (pm.op = "get_langfuse_metrics"
            /\ (pm.files.db # "ok" \/ "langfuse_metrics" \notin pm.files.tables)) =>
           pm.ret.t = "None"

(* C19: fetch_usage never asks the usage API while the held credentials    *)
(* are absent or expired: if they are still absent or expired after one    *)
(* reload it returns False with a non-empty error_message and makes no     *)
(* request.                                                                *)
C19_NoRequestWithoutToken ==
    code.op = "fetch_usage" =>
      /\ code.requested => ~is_token_expired(code.credentials, code.t)
      /\ is_token_expired(code.credentials, code.t) =>
           /\ code.ret = "False"
           /\ ~code.requested
           /\ code.error_message # "None"

(* The oldest snapshot of the smallest window holding one was taken at the *)
(* second of the call (zero elapsed time), and every snapshot read holds a  *)
(* value.                                                                   *)
ZeroElapsed(c) ==
    /\ IsRate(c) /\ ~IsNone(c.cur)
    /\ WindowsWithData(RowsOf(c), c.t) # {}
    /\ Reference(RowsOf(c), c.t).timestamp = c.t
    /\ \A r \in RowsOf(c) : ~IsNone(r.value)

(* C20: when the oldest snapshot inside a window has the timestamp of the   *)
(* call, the estimator goes on to the next wider window: it returns a rate  *)
(* from an older snapshot of a wider window if there is one, returns None   *)
(* only after all six windows have been queried, and raises nothing.        *)
C20_ZeroElapsedAdvances ==
    ZeroElapsed(last) =>
      /\ ~last.raised
      /\ IsNone(last.val) => last.sql = Len(windows)
      /\ (\E r \in RowsOf(last) :
             r.timestamp < last.t /\ r.timestamp >= last.t - windows[Len(windows)])
           => ~IsNone(last.val)

(* The table after the whole write of the call under way: its row upserted *)
(* and the rows older than the retention pruned.                            *)
Written(c) ==
    DeleteOlder(InsertOrReplace(c.before, CHOOSE r \in c.row : TRUE),
                c.t - HISTORY_RETENTION)

(* C21: the upsert and the retention delete of a store call are committed   *)
(* as one transaction: during the call, after an interrupt and for a        *)
(* concurrent reader the table is the one before the call or the one with   *)
(* both applied, and a call that runs to its end has committed both.        *)
C21_StoreIsAtomic ==
    tx.started =>
      /\ Table(tx.kind) \in {tx.before, Written(tx)}
      /\ tx.seen \in {tx.before, Written(tx)}
      /\ (tx.pc = "returned" /\ tx.raised # "KeyboardInterrupt")
           => Table(tx.kind) = Written(tx)

(* A page that lets the loop go on: a 200 with has_more true and a          *)
(* non-empty next-page token.                                               *)
Continues(r) ==
    /\ r.kind = "ok" /\ r.has_more = "true"
    /\ r.style # "none" /\ r.token \notin {"None", ""}

RECURSIVE Concat(_, _)
Concat(pages, k) ==
    IF k = 0 THEN <<>> ELSE Concat(pages, k - 1) \o Items(k, pages[k])

(* C22: _handle_pagination stops at the first page that fails, has has_more *)
(* false or carries no next-page token; it returns the items of all pages   *)
(* in request order with a null error, or (None, error) and no items when   *)
(* a page failed.                                                           *)
C22_PaginationResult ==
    LET n == Len(pager.pages)
    IN  /\ \A k \in 1..(n - 1) : Continues(pager.pages[k])
        /\ (pager.pc = "loop" /\ n > 0) => Continues(pager.pages[n])
        /\ pager.pc = "done" =>
             /\ ~Continues(pager.pages[n])
             /\ IF pager.pages[n].kind = "ok"
                THEN /\ pager.error = "None" /\ pager.returned_data
                     /\ pager.data = Concat(pager.pages, n)
                ELSE /\ pager.error # "None" /\ ~pager.returned_data

C22_Witness ==
    /\ pager.pc = "done" /\ Len(pager.pages) = 3
    /\ pager.error = "None" /\ Len(pager.data) = 4
    /\ pager.pages[3].has_more = "true" /\ pager.pages[3].token = ""

(* The last call came after an earlier one, age seconds after the fetch     *)
(* whose result and time the cache fields held.                             *)
CacheAge == cache.t - cache.prev_time

(* C23 as stated: a call less than 5 seconds after the previous fetch       *)
(* returns that fetch's result without querying; a call 5 seconds or more   *)
(* after it queries the database again.                                     *)
C23_CachedWithinTtl ==
    (cache.op = "get_blockage_stats_cached" /\ cache.fetched) =>
      /\ CacheAge < CACHE_TTL_SECONDS => ~cache.connected /\ cache.ret = cache.prev
      /\ CacheAge >= CACHE_TTL_SECONDS => cache.queried

(* C23 amended: the result of the previous fetch is served without a query  *)
(* for 5 seconds when it was not None; a None result is not cached, and a   *)
(* cached result 5 seconds old or older is fetched again.                   *)
C23_CachedUnlessNone ==
    (cache.op = "get_blockage_stats_cached" /\ cache.fetched) =>
      /\ (CacheAge < CACHE_TTL_SECONDS /\ cache.prev.t # "None")
           => ~cache.queried /\ cache.ret = cache.prev
      /\ (CacheAge >= CACHE_TTL_SECONDS \/ cache.prev.t = "None")
           => /\ cache.queried
              /\ cache.ret = blockage_counts(cache.files, cache.events)

C23_Witness ==
    /\ cache.op = "get_blockage_stats_cached" /\ cache.fetched
    /\ CacheAge = 4 /\ ~cache.queried
    /\ cache.ret = Stats("dict", 1) /\ cache.events = 2

(* C24: fetch_usage reloads credentials only when the ones it holds are    *)
(* absent or expired: holding an unexpired token it asks the API without    *)
(* any reload or Keychain read, also on the calls that follow a reload      *)
(* which produced that token.                                               *)
C24_ReloadOnlyWhenNeeded ==
    code.op = "fetch_usage" =>
      /\ code.reloads > 0 => is_token_expired(code.held, code.t)
      /\ ~is_token_expired(code.held, code.t) =>
           /\ code.reloads = 0 /\ code.keychain_calls = 0
           /\ code.requested /\ code.credentials = code.held

C24_Witness ==
    /\ code.op = "fetch_usage" /\ code.platform = "Darwin"
    /\ code.refreshed /\ code.cycles = 2
    /\ code.reloads = 0 /\ code.keychain_calls = 0 /\ code.requested
    /\ code.credentials = code.keychain

(* C25: when fetch_organization answers with an error, fetch_console_data  *)
(* returns False with that error as error_message, issues no further        *)
(* request in the cycle and does not reach the snapshot store.              *)
C25_OrganizationErrorStops ==
    (console.call.done /\ console.console_client /\ console.call.org = "error") =>
      /\ console.ret = "False"
      /\ console.error_message = "org"
      /\ console.call.requests = <<"organization">>
      /\ At("store") = {} /\ At("estimate") = {}
      /\ console.pc # "crashed"

C25_Witness ==
    /\ console.call.done /\ console.call.org = "error"
    /\ console.call.requests = <<"organization">>
    /\ console.cycles = 1 /\ console.ret = "False"
    /\ console_usage_snapshots # {}

(* C27: in every console poll cycle the value handed to the rate estimator *)
(* is the value the cycle stores as mtd_cost in its snapshot.               *)
C27_EstimateOfStoredMeasure ==
    (/\ console.call.done
     /\ ~IsNone(console.call.estimate_of) /\ ~IsNone(console.call.store_of)) =>
      console.call.estimate_of = console.call.store_of

(* C28: after a poll cycle in which every API fetch succeeded the monitor's *)
(* error_message is None, for ConsoleMonitor.fetch_console_data and for     *)
(* CodeMonitor.fetch_usage.                                                 *)
C28_SuccessClearsError ==
    /\ (console.call.done /\ console.success) => console.error_message = "None"
    /\ (code.op = "fetch_usage" /\ code.requested /\ code.ret = "True")
         => code.error_message = "None"

(* What a store at second t may do to its table: rows inside the retention *)
(* with another timestamp stay as they are, and no row appears except the    *)
(* one of second t.                                                          *)
Framed(table, after, t) ==
    /\ \A r \in table :
         (r.timestamp >= t - HISTORY_RETENTION /\ r.timestamp # t) => r \in after
    /\ \A r \in after : r \in table \/ r.timestamp = t

(* C26: a store call changes nothing except its own row and the pruned rows *)
(* of its own table; the other snapshot table is left unchanged.            *)
C26_StoreFrame ==
    [][ /\ last'.op = "store_snapshot" =>
             /\ Framed(usage_snapshots, usage_snapshots', last'.t)
             /\ console_usage_snapshots' = console_usage_snapshots
        /\ last'.op = "store_console_snapshot" =>
             /\ Framed(console_usage_snapshots, console_usage_snapshots', last'.t)
             /\ usage_snapshots' = usage_snapshots ]_vars

C26_Witness ==
    /\ last.op = "store_snapshot" /\ WellFormedCode(last.overage, last.usage)
    /\ \E r \in usage_snapshots :
         r.timestamp >= last.t - HISTORY_RETENTION /\ r.timestamp # last.t
    /\ console_usage_snapshots # {}

(* C29: whenever load_credentials returns credentials with a null error,   *)
(* they are not expired according to is_token_expired, whether they came    *)
(* from the credentials file or from the Keychain.                          *)
C29_LoadedMeansUnexpired ==
    (code.load.error = "None" /\ code.load.credentials.kind # "absent") =>
      ~is_token_expired(code.load.credentials, code.load.t)

====
